---- MODULE Spec2Model ----
(***************************************************************************)
(* A model of dwm (src/dwm.c, src/config.def.h): the client and monitor    *)
(* records, the per-monitor `clients` and `stack` lists, tags, focus,      *)
(* fullscreen, size hints and the layout engine, driven by the X event     *)
(* handlers and the key-bound user actions.                                *)
(*                                                                         *)
(* Conventions.                                                            *)
(*  - A Client is identified by its X window (a number in Windows); the    *)
(*    C pointer NULL is None.  A Monitor is identified by its position in  *)
(*    the list `mons` (updategeom only ever appends and removes the last). *)
(*  - Bit masks (tags, tagsets, Arg.ui) are sets of bit positions 0..31:   *)
(*    a & b is \cap, a | b is \cup, a ^ b is the symmetric difference.     *)
(*  - float mfact is kept in hundredths (55 is 0.55f); an aspect ratio is  *)
(*    a fraction [n, d].  The conversions float -> int truncate.           *)
(*  - The helpers are state transformers: they take the program state as a *)
(*    record s and return the state the C function leaves.                 *)
(*                                                                         *)
(* Modelled: setup's first updategeom, the handlers maprequest (manage),   *)
(* destroynotify and unmapnotify (unmanage), configurerequest,             *)
(* configurenotify on the root (updategeom), clientmessage,                *)
(* propertynotify, enternotify, and the actions view, toggleview, tag,     *)
(* toggletag, zoom, focusstack, focusmon, tagmon, setlayout, setmfact,     *)
(* incnmaster, togglebar and togglefloating.  Not modelled: the pointer    *)
(* handlers (buttonpress, motionnotify, movemouse, resizemouse),           *)
(* killclient, the bar's drawing, and the state kept by the X server       *)
(* (window geometry as configured, stacking order, input focus, grabs).    *)
(* Screens are scaled down: a monitor is 12x8 or 16x10 and the bar is 2    *)
(* high, so that hints of a few pixels already exceed a monitor.           *)
(*                                                                         *)
(* Three smaller specifications apply one function to inputs drawn from    *)
(* bounded sets: SpecHints (applysizehints), SpecTile (arrangemon and zoom *)
(* on one monitor with up to MaxTiled clients, on 1600x1000 too) and       *)
(* SpecGeom (updategeom with fewer screens, from up to MaxMons monitors).  *)
(***************************************************************************)
EXTENDS Integers, Sequences, FiniteSets, TLC

VARIABLES
  mons,           \* Monitor* mons: the list of monitors, as a sequence
  selmon,         \* Monitor* selmon: index into mons
  heap,           \* the allocated Client structs, by window
  sw, sh,         \* X display screen geometry
  netClientList,  \* root property _NET_CLIENT_LIST, a sequence of windows
  xserver,        \* what the X server holds: _NET_ACTIVE_WINDOW of the root, and
                  \* each client window's border colour and button grabs
  arranged,       \* the monitors the last handler arranged (arrangemon ran)
  last,           \* the last handled event or action, with its subject
  probe,          \* inputs and results of the pure-function probes
  nev,            \* number of events handled so far
  running,        \* static int running
  pc              \* where main is: in run ("run"), in cleanup, or past it

vars ==
  <<mons, selmon, heap, sw, sh, netClientList, xserver, arranged, last, probe,
    nev, running, pc>>

\* ---------------------------------------------------------------- bounds
MaxWin == 2
MaxEvents == 4

\* ------------------------------------------------------- config.def.h
borderpx == 1
snap == 32
resizehints == 1
NumTags == 9
nmaster == 1
mfact == 55
showbar == 1
topbar == 1
\* bar height: drw->fonts->h + 2, here for the smallest font
bh == 2

None == 0
Windows == 1..MaxWin

TAGMASK == 0..(NumTags - 1)
AllBits == 0..31
Xor(a, b) == (a \ b) \cup (b \ a)

\* Layout layouts[]: 1 is tile, 2 is floating (no arrange function), 3 is monocle
LtTile == 1
LtFloat == 2
LtMonocle == 3
\* 4 is no entry of layouts[]: it is cleanup's local Layout foo = { "", NULL }
LtFoo == 4
layouts ==
  <<[symbol |-> "[]=", arrange |-> "tile"],
    [symbol |-> "><>", arrange |-> "NULL"],
    [symbol |-> "[M]", arrange |-> "monocle"],
    [symbol |-> "", arrange |-> "NULL"]>>

\* Rule rules[]: class Gimp floats, class Firefox goes to tag 9; monitor -1
rules ==
  <<[tags |-> {}, isfloating |-> TRUE, monitor |-> -1],
    [tags |-> {8}, isfloating |-> FALSE, monitor |-> -1]>>

\* ------------------------------------------------------------- C arithmetic
MAX(a, b) == IF a > b THEN a ELSE b
MIN(a, b) == IF a < b THEN a ELSE b
Abs(a) == IF a < 0 THEN -a ELSE a
\* C integer division and remainder: truncation toward zero
CDiv(a, b) ==
  LET q == Abs(a) \div Abs(b) IN IF (a < 0) = (b < 0) THEN q ELSE -q
CMod(a, b) == a - b * CDiv(a, b)
\* unsigned 32-bit division a / k, k > 0, of the value whose two's complement
\* reading is a; the result again read as an int.  2^32 = 4 * 2^30.
UDiv32(a, k) ==
  IF a >= 0 THEN a \div k
  ELSE IF k = 1 THEN a
  ELSE ((1073741824 \div k) - 1) * 4 + (4 + ((4 * (1073741824 % k) + a) \div k))

\* ----------------------------------------------------------------- macros
WIDTH(c) == c.w + 2 * c.bw
HEIGHT(c) == c.h + 2 * c.bw
ISVISIBLE(s, c) ==
  (s.heap[c].tags \cap
     s.mons[s.heap[c].mon].tagset[s.mons[s.heap[c].mon].seltags + 1]) # {}
INTERSECT(x, y, w, h, m) ==
  MAX(0, MIN(x + w, m.wx + m.ww) - MAX(x, m.wx))
    * MAX(0, MIN(y + h, m.wy + m.wh) - MAX(y, m.wy))

\* the arrange function of monitor m's selected layout
ltarrange(m) == layouts[m.lt[m.sellt + 1]].arrange

\* the program state as one record, and its write-back
S ==
  [mons |-> mons, selmon |-> selmon, heap |-> heap, sw |-> sw, sh |-> sh,
   netClientList |-> netClientList, xserver |-> xserver, arranged |-> {}]

\* A handler that neither changes the program state nor arranges a monitor
\* is a stuttering step.  run dispatches an event only while running is set.
Commit(s, ev) ==
  /\ running
  /\ pc = "run"
  /\ \/ <<s.mons, s.selmon, s.heap, s.sw, s.sh, s.netClientList, s.xserver>>
          # <<mons, selmon, heap, sw, sh, netClientList, xserver>>
     \/ s.arranged # {}
  /\ mons' = s.mons
  /\ selmon' = s.selmon
  /\ heap' = s.heap
  /\ sw' = s.sw
  /\ sh' = s.sh
  /\ netClientList' = s.netClientList
  /\ xserver' = s.xserver
  /\ arranged' = s.arranged
  /\ last' = ev
  /\ nev' = nev + 1
  /\ UNCHANGED <<probe, running, pc>>

\* ------------------------------------------------------------ size hints
\* a < w / h in float arithmetic, a = [n, d] with d > 0 (h = 0 gives +-inf or NaN)
RatLess(a, w, h) ==
  IF h > 0 THEN a.n * h < w * a.d
  ELSE IF h < 0 THEN a.n * (-h) < (-w) * a.d
  ELSE w > 0
\* (int)(v * a + 0.5)
RatMulRound(v, a) == CDiv(2 * v * a.n + a.d, 2 * a.d)

Geom(x, y, w, h) == [x |-> x, y |-> y, w |-> w, h |-> h]

\* *w = MAX(1, *w) and *h = MAX(1, *h); likewise the bar height as a minimum
atleast(g, n) == [g EXCEPT !.w = MAX(n, @), !.h = MAX(n, @)]

\* the window lies beyond the right or bottom edge of the screen (interact)
\* or of the monitor's window area
beyondfar(s, cl, g, interact) ==
  LET m == s.mons[cl.mon]
  IN IF interact
     THEN [g EXCEPT !.x = IF @ > s.sw THEN s.sw - WIDTH(cl) ELSE @,
                    !.y = IF @ > s.sh THEN s.sh - HEIGHT(cl) ELSE @]
     ELSE [g EXCEPT !.x = IF @ >= m.wx + m.ww THEN m.wx + m.ww - WIDTH(cl) ELSE @,
                    !.y = IF @ >= m.wy + m.wh THEN m.wy + m.wh - HEIGHT(cl) ELSE @]

\* the window lies beyond the left or top edge
beyondnear(s, cl, g, interact) ==
  LET m == s.mons[cl.mon]
  IN IF interact
     THEN [g EXCEPT !.x = IF @ + g.w + 2 * cl.bw < 0 THEN 0 ELSE @,
                    !.y = IF @ + g.h + 2 * cl.bw < 0 THEN 0 ELSE @]
     ELSE [g EXCEPT !.x = IF @ + g.w + 2 * cl.bw <= m.wx THEN m.wx ELSE @,
                    !.y = IF @ + g.h + 2 * cl.bw <= m.wy THEN m.wy ELSE @]

baseismin(cl) == cl.basew = cl.minw /\ cl.baseh = cl.minh

\* *w -= c->basew; *h -= c->baseh; under the condition when
dropbase(cl, g, when) ==
  IF when THEN [g EXCEPT !.w = @ - cl.basew, !.h = @ - cl.baseh] ELSE g

\* adjust for aspect limits
aspectlimits(cl, g) ==
  IF cl.mina.n > 0 /\ cl.maxa.n > 0
  THEN (IF RatLess(cl.maxa, g.w, g.h) THEN [g EXCEPT !.w = RatMulRound(g.h, cl.maxa)]
        ELSE IF RatLess(cl.mina, g.h, g.w) THEN [g EXCEPT !.h = RatMulRound(g.w, cl.mina)]
        ELSE g)
  ELSE g

\* adjust for increment value
increments(cl, g) ==
  [g EXCEPT !.w = IF cl.incw # 0 THEN @ - CMod(@, cl.incw) ELSE @,
            !.h = IF cl.inch # 0 THEN @ - CMod(@, cl.inch) ELSE @]

\* restore base dimensions, apply the minimum and the maximum
restorebase(cl, g) ==
  [g EXCEPT !.w = IF cl.maxw # 0 THEN MIN(MAX(@ + cl.basew, cl.minw), cl.maxw)
                  ELSE MAX(@ + cl.basew, cl.minw),
            !.h = IF cl.maxh # 0 THEN MIN(MAX(@ + cl.baseh, cl.minh), cl.maxh)
                  ELSE MAX(@ + cl.baseh, cl.minh)]

\* the block under if (resizehints || c->isfloating || !...->arrange)
hinted(s, cl, g) ==
  IF resizehints # 0 \/ cl.isfloating \/ ltarrange(s.mons[cl.mon]) = "NULL"
  THEN restorebase(cl, increments(cl,
         dropbase(cl, aspectlimits(cl, dropbase(cl, g, ~baseismin(cl))), baseismin(cl))))
  ELSE g

\* applysizehints(c, &x, &y, &w, &h, interact): the geometry it leaves in
\* x, y, w, h; its return value is changed(c, that geometry)
applysizehints(s, c, x, y, w, h, interact) ==
  hinted(s, s.heap[c],
         atleast(beyondnear(s, s.heap[c],
                            beyondfar(s, s.heap[c], atleast(Geom(x, y, w, h), 1), interact),
                            interact),
                 bh))

changed(cl, g) == g.x # cl.x \/ g.y # cl.y \/ g.w # cl.w \/ g.h # cl.h

resizeclient(s, c, x, y, w, h) ==
  [s EXCEPT !.heap[c] =
     [@ EXCEPT !.oldx = s.heap[c].x, !.x = x, !.oldy = s.heap[c].y, !.y = y,
               !.oldw = s.heap[c].w, !.w = w, !.oldh = s.heap[c].h, !.h = h]]

\* resizeclient when applysizehints returned true
resizeif(s, c, g) ==
  IF changed(s.heap[c], g) THEN resizeclient(s, c, g.x, g.y, g.w, g.h) ELSE s

resize(s, c, x, y, w, h, interact) ==
  resizeif(s, c, applysizehints(s, c, x, y, w, h, interact))

\* ------------------------------------------------------------------ layout
istiled(s, c) == ~s.heap[c].isfloating /\ ISVISIBLE(s, c)

\* the tiled clients of monitor mi in `clients` order (the nexttiled walk)
nexttiled(s, mi) == SelectSeq(s.mons[mi].clients, LAMBDA c : istiled(s, c))

RECURSIVE showhidewalk(_, _, _)
showhidewalk(s, st, i) ==
  IF i > Len(st) THEN s
  ELSE LET c == st[i]
           cl == s.heap[c]
           m == s.mons[cl.mon]
       IN IF ISVISIBLE(s, c)
               /\ (ltarrange(m) = "NULL" \/ cl.isfloating)
               /\ ~cl.isfullscreen
          THEN showhidewalk(resize(s, c, cl.x, cl.y, cl.w, cl.h, FALSE), st, i + 1)
          ELSE showhidewalk(s, st, i + 1)

\* showhide(m->stack): only the visible floating clients change stored state
showhide(s, mi) == showhidewalk(s, s.mons[mi].stack, 1)

RECURSIVE tilewalk(_, _, _, _, _, _, _)
RECURSIVE tilenext(_, _, _, _, _, _, _)
\* the body of the loop of tile for the i-th tiled client (i from 0).
\* h, my and ty are unsigned: once my or ty has passed m->wh the difference
\* m->wh - my wraps, and UDiv32 gives the int reading of the quotient.  The
\* divisor is 1 then unless three clients share the area, so with two
\* windows every value stays far inside int; with a third, the quotient can
\* reach 2^31 - 1, and the sum *y + *h + 2 * c->bw of applysizehints leaves int.
tilewalk(s, mi, tl, i, my, ty, mw) ==
  IF i >= Len(tl) THEN s
  ELSE LET m == s.mons[mi]
           c == tl[i + 1]
           bw == s.heap[c].bw
       IN IF i < m.nmaster
          THEN tilenext(resize(s, c, m.wx, m.wy + my, mw - 2 * bw,
                               UDiv32(m.wh - my, MIN(Len(tl), m.nmaster) - i) - 2 * bw,
                               FALSE),
                        mi, tl, i, my, ty, mw)
          ELSE tilenext(resize(s, c, m.wx + mw, m.wy + ty, m.ww - mw - 2 * bw,
                               UDiv32(m.wh - ty, Len(tl) - i) - 2 * bw, FALSE),
                        mi, tl, i, my, ty, mw)

\* my += HEIGHT(c) or ty += HEIGHT(c), and the loop's i++
tilenext(s, mi, tl, i, my, ty, mw) ==
  IF i < s.mons[mi].nmaster
  THEN tilewalk(s, mi, tl, i + 1, my + HEIGHT(s.heap[tl[i + 1]]), ty, mw)
  ELSE tilewalk(s, mi, tl, i + 1, my, ty + HEIGHT(s.heap[tl[i + 1]]), mw)

\* tile with the master column kept at mfact when the masters are alone
tilesplit(s, mi) ==
  LET m == s.mons[mi]
      tl == nexttiled(s, mi)
      mw == IF m.nmaster # 0 THEN (m.ww * m.mfact) \div 100 ELSE 0
  IN IF Len(tl) = 0 THEN s ELSE tilewalk(s, mi, tl, 0, 0, 0, mw)

tile(s, mi) ==
  LET m == s.mons[mi]
      tl == nexttiled(s, mi)
      n == Len(tl)
      mw == IF n > m.nmaster
            THEN (IF m.nmaster # 0 THEN (m.ww * m.mfact) \div 100 ELSE 0)
            ELSE m.ww
  IN IF n = 0 THEN s ELSE tilewalk(s, mi, tl, 0, 0, 0, mw)

RECURSIVE monoclewalk(_, _, _, _)
monoclewalk(s, mi, tl, i) ==
  IF i > Len(tl) THEN s
  ELSE LET m == s.mons[mi]
           bw == s.heap[tl[i]].bw
       IN monoclewalk(resize(s, tl[i], m.wx, m.wy, m.ww - 2 * bw, m.wh - 2 * bw, FALSE),
                      mi, tl, i + 1)

\* monocle counting the tiled clients only
monocletiled(s, mi) ==
  LET n == Len(nexttiled(s, mi))
      s1 == IF n > 0 THEN [s EXCEPT !.mons[mi].ltsymbol = [symbol |-> "[%d]", n |-> n]]
            ELSE s
  IN monoclewalk(s1, mi, nexttiled(s1, mi), 1)

monocle(s, mi) ==
  LET m == s.mons[mi]
      n == Len(SelectSeq(m.clients, LAMBDA c : ISVISIBLE(s, c)))
      s1 == IF n > 0 THEN [s EXCEPT !.mons[mi].ltsymbol = [symbol |-> "[%d]", n |-> n]]
            ELSE s
  IN monoclewalk(s1, mi, nexttiled(s1, mi), 1)

arrangemon(s, mi) ==
  LET m == s.mons[mi]
      s1 == [s EXCEPT !.mons[mi].ltsymbol =
                        [symbol |-> layouts[m.lt[m.sellt + 1]].symbol, n |-> 0],
                      !.arranged = @ \cup {mi}]
  IN IF ltarrange(m) = "tile" THEN tile(s1, mi)
     ELSE IF ltarrange(m) = "monocle" THEN monocle(s1, mi)
     ELSE s1

RECURSIVE showhideall(_, _)
showhideall(s, i) ==
  IF i > Len(s.mons) THEN s ELSE showhideall(showhide(s, i), i + 1)

RECURSIVE arrangeall(_, _)
arrangeall(s, i) ==
  IF i > Len(s.mons) THEN s ELSE arrangeall(arrangemon(s, i), i + 1)

\* arrange(m); mi = None is arrange(NULL).  restack only talks to the X server.
arrange(s, mi) ==
  IF mi # None THEN arrangemon(showhide(s, mi), mi)
  ELSE arrangeall(showhideall(s, 1), 1)

\* ------------------------------------------------------- lists and focus
Remove(seq, c) == SelectSeq(seq, LAMBDA e : e # c)

RECURSIVE firstvisible(_, _, _)
\* for (t = stack; t && !ISVISIBLE(t); t = t->snext);
firstvisible(s, st, i) ==
  IF i > Len(st) THEN None
  ELSE IF ISVISIBLE(s, st[i]) THEN st[i]
  ELSE firstvisible(s, st, i + 1)

attach(s, c) ==
  [s EXCEPT !.mons[s.heap[c].mon].clients = <<c>> \o @]

\* attachstack with selmon in the place of c->mon
attachstackselmon(s, c) ==
  [s EXCEPT !.mons[s.selmon].stack = <<c>> \o @]

attachstack(s, c) ==
  [s EXCEPT !.mons[s.heap[c].mon].stack = <<c>> \o @]

detach(s, c) ==
  [s EXCEPT !.mons[s.heap[c].mon].clients = Remove(@, c)]

detachstack(s, c) ==
  LET mi == s.heap[c].mon
      s1 == [s EXCEPT !.mons[mi].stack = Remove(@, c)]
  IN IF c = s.mons[mi].sel
     THEN [s1 EXCEPT !.mons[mi].sel = firstvisible(s1, s1.mons[mi].stack, 1)]
     ELSE s1

seturgent(s, c, urg) == [s EXCEPT !.heap[c].isurgent = urg]

\* the X server before any client window is managed
NoX == [NetActiveWindow |-> None, border |-> <<>>, focused |-> <<>>]

\* the X server as focus(selmon->sel) leaves it after every other client
\* was unfocused: the states the specifications of single operations start in
xsettled(s) ==
  LET c == s.mons[s.selmon].sel
  IN [s EXCEPT !.xserver =
        [NetActiveWindow |-> IF c # None /\ ~s.heap[c].neverfocus THEN c ELSE None,
         border |-> [k \in DOMAIN s.heap |-> IF k = c THEN "SchemeSel" ELSE "SchemeNorm"],
         focused |-> [k \in DOMAIN s.heap |-> k = c]]]

\* unfocus(c, setfocus): grabbuttons(c, 0), the normal border, and with
\* setfocus the root gets the input focus and loses _NET_ACTIVE_WINDOW
unfocus(s, c, setfocus) ==
  IF c = None THEN s
  ELSE [s EXCEPT !.xserver.focused[c] = FALSE,
                 !.xserver.border[c] = "SchemeNorm",
                 !.xserver.NetActiveWindow = IF setfocus THEN None ELSE @]

\* setfocus(c): _NET_ACTIVE_WINDOW names c unless c never takes the focus
setfocus(s, c) ==
  IF ~s.heap[c].neverfocus THEN [s EXCEPT !.xserver.NetActiveWindow = c] ELSE s

\* if (selmon->sel && selmon->sel != c) unfocus(selmon->sel, 0);
unfocusother(s, c) ==
  IF s.mons[s.selmon].sel # None /\ s.mons[s.selmon].sel # c
  THEN unfocus(s, s.mons[s.selmon].sel, FALSE)
  ELSE s

\* grabbuttons(c, 1); XSetWindowBorder(.. SchemeSel ..); setfocus(c);
focusx(s, c) ==
  setfocus([s EXCEPT !.xserver.focused[c] = TRUE, !.xserver.border[c] = "SchemeSel"], c)

\* the else branch of focus: no client, _NET_ACTIVE_WINDOW is deleted
focusroot(s) == [s EXCEPT !.xserver.NetActiveWindow = None]

\* the part of focus(c) after the choice of the client to focus
focusto(s, c) ==
  IF c # None
  THEN [focusx(attachstack(detachstack([unfocusother(s, c)
                                          EXCEPT !.selmon = s.heap[c].mon,
                                                 !.heap[c].isurgent = IF @ THEN FALSE ELSE @],
                                       c), c), c)
          EXCEPT !.mons[s.heap[c].mon].sel = c]
  ELSE [focusroot(unfocusother(s, c)) EXCEPT !.mons[s.selmon].sel = None]

\* focus that selects the client and leaves the stack as it is
focusinplace(s, c) ==
  LET t == IF c = None \/ ~ISVISIBLE(s, c)
           THEN firstvisible(s, s.mons[s.selmon].stack, 1)
           ELSE c
  IN IF t # None
     THEN [focusx(unfocusother(s, t), t)
             EXCEPT !.selmon = s.heap[t].mon, !.mons[s.heap[t].mon].sel = t,
                    !.heap[t].isurgent = FALSE]
     ELSE [focusroot(unfocusother(s, t)) EXCEPT !.mons[s.selmon].sel = None]

\* focus(c); c = None is focus(NULL).  drawbars only draws.
focus(s, c) ==
  focusto(s, IF c = None \/ ~ISVISIBLE(s, c)
             THEN firstvisible(s, s.mons[s.selmon].stack, 1)
             ELSE c)

\* wintoclient(w): the client of window w, or NULL
wintoclient(s, w) ==
  IF \E i \in 1..Len(s.mons) : \E k \in 1..Len(s.mons[i].clients) : s.mons[i].clients[k] = w
  THEN w ELSE None

\* ---------------------------------------------------------------- monitors
updatebarpos(m) ==
  IF m.showbar
  THEN [m EXCEPT !.wh = m.mh - bh,
                 !.by = IF m.topbar THEN m.my ELSE m.my + (m.mh - bh),
                 !.wy = IF m.topbar THEN m.my + bh ELSE m.my]
  ELSE [m EXCEPT !.wy = m.my, !.wh = m.mh, !.by = -bh]

createmon ==
  [num |-> 0, by |-> 0, mx |-> 0, my |-> 0, mw |-> 0, mh |-> 0,
   wx |-> 0, wy |-> 0, ww |-> 0, wh |-> 0,
   seltags |-> 0, sellt |-> 0, tagset |-> <<{0}, {0}>>,
   showbar |-> (showbar # 0), topbar |-> (topbar # 0),
   mfact |-> mfact, nmaster |-> nmaster,
   clients |-> <<>>, stack |-> <<>>, sel |-> None,
   lt |-> <<LtTile, LtFloat>>,
   ltsymbol |-> [symbol |-> layouts[LtTile].symbol, n |-> 0]]

\* recttomon(x, y, w, h): the monitor with the largest intersection, the first
\* of equals, selmon when none intersects
RECURSIVE recttomonwalk(_, _, _, _, _, _, _)
recttomonwalk(s, x, y, w, h, i, best) ==
  IF i > Len(s.mons) THEN best.r
  ELSE LET a == INTERSECT(x, y, w, h, s.mons[i])
       IN IF a > best.area
          THEN recttomonwalk(s, x, y, w, h, i + 1, [r |-> i, area |-> a])
          ELSE recttomonwalk(s, x, y, w, h, i + 1, best)

recttomon(s, x, y, w, h) ==
  recttomonwalk(s, x, y, w, h, 1, [r |-> s.selmon, area |-> 0])

\* isuniquegeom / the copy loop of updategeom: drop the repeated geometries
RECURSIVE uniquegeoms(_, _, _)
uniquegeoms(info, i, acc) ==
  IF i > Len(info) THEN acc
  ELSE IF \E j \in 1..Len(acc) : acc[j] = info[i]
       THEN uniquegeoms(info, i + 1, acc)
       ELSE uniquegeoms(info, i + 1, Append(acc, info[i]))

\* a loop that leaves the clients on the monitor that goes
migratenone(s, mi) == s

\* the loop that moves the clients of the last monitor mi to the first one
RECURSIVE migrate(_, _)
migrate(s, mi) ==
  IF s.mons[mi].clients = <<>> THEN s
  ELSE LET c == Head(s.mons[mi].clients)
           s1 == [s EXCEPT !.mons[mi].clients = Tail(@)]
           s2 == detachstack(s1, c)
           s3 == [s2 EXCEPT !.heap[c].mon = 1]
       IN migrate(attachstack(attach(s3, c), c), mi)

\* cleanupmon(m) for the last monitor mi with selmon left as it is
retirekeepsel(s, mi) ==
  [s EXCEPT !.mons = SubSeq(@, 1, mi - 1)]

\* if (m == selmon) selmon = mons; cleanupmon(m); for the last monitor mi
retire(s, mi) ==
  [s EXCEPT !.selmon = IF mi = @ THEN 1 ELSE @, !.mons = SubSeq(@, 1, mi - 1)]

\* the shrinking loop: the last monitors go until nn are left
RECURSIVE shrink(_, _)
shrink(st, nn) ==
  IF Len(st.s.mons) <= nn THEN st
  ELSE shrink([s |-> retire(migrate(st.s, Len(st.s.mons)), Len(st.s.mons)),
               dirty |-> (st.dirty \/ st.s.mons[Len(st.s.mons)].clients # <<>>)], nn)

setgeom(m, i, u) ==
  updatebarpos([m EXCEPT !.num = i, !.mx = u.x, !.wx = u.x, !.my = u.y, !.wy = u.y,
                         !.mw = u.w, !.ww = u.w, !.mh = u.h, !.wh = u.h])

\* the two branches of updategeom() on the unique geometries
regeom(s, unique) ==
  LET n == Len(s.mons)
      nn == Len(unique)
      differs(i) == i > n \/ unique[i].x # s.mons[i].mx \/ unique[i].y # s.mons[i].my
                          \/ unique[i].w # s.mons[i].mw \/ unique[i].h # s.mons[i].mh
  IN IF n <= nn
     THEN [s |-> [s EXCEPT !.mons =
                     [i \in 1..nn |->
                        IF differs(i)
                        THEN setgeom(IF i <= n THEN s.mons[i] ELSE createmon, i - 1,
                                     unique[i])
                        ELSE s.mons[i]]],
           dirty |-> (\E i \in 1..nn : differs(i))]
     ELSE shrink([s |-> s, dirty |-> FALSE], nn)

\* if (dirty) { selmon = mons; selmon = wintomon(root); }
repoint(r, ptr) ==
  IF r.dirty
  THEN [r EXCEPT !.s.selmon = recttomon([r.s EXCEPT !.selmon = 1], ptr.x, ptr.y, 1, 1)]
  ELSE r

\* updategeom() with Xinerama active: info is what XineramaQueryScreens
\* reports, ptr the pointer position that wintomon(root) reads.
\* Returns the state and the dirty flag.
updategeom(s, info, ptr) == repoint(regeom(s, uniquegeoms(info, 1, <<>>)), ptr)

\* ------------------------------------------------------ client properties
\* ecalloc(1, sizeof(Client))
calloc ==
  [x |-> 0, y |-> 0, w |-> 0, h |-> 0, oldx |-> 0, oldy |-> 0, oldw |-> 0, oldh |-> 0,
   basew |-> 0, baseh |-> 0, incw |-> 0, inch |-> 0,
   maxw |-> 0, maxh |-> 0, minw |-> 0, minh |-> 0,
   mina |-> [n |-> 0, d |-> 1], maxa |-> [n |-> 0, d |-> 1],
   bw |-> 0, oldbw |-> 0, tags |-> {},
   isfixed |-> FALSE, isfloating |-> FALSE, isurgent |-> FALSE, neverfocus |-> FALSE,
   oldstate |-> FALSE, isfullscreen |-> FALSE, mon |-> None,
   \* not a field of Client: the border width of the window when manage
   \* read its attributes, which is what the X server had for it
   wa_border_width |-> 0]

\* the XSizeHints of a window without WM_NORMAL_HINTS: size.flags = PSize
NoSizeHints ==
  [flags |-> {"PSize"}, base_width |-> 0, base_height |-> 0, min_width |-> 0,
   min_height |-> 0, max_width |-> 0, max_height |-> 0, width_inc |-> 0, height_inc |-> 0,
   min_aspect |-> [x |-> 1, y |-> 1], max_aspect |-> [x |-> 1, y |-> 1]]

updatesizehints(s, c, size) ==
  LET f == size.flags
      base == IF "PBaseSize" \in f THEN <<size.base_width, size.base_height>>
              ELSE IF "PMinSize" \in f THEN <<size.min_width, size.min_height>>
              ELSE <<0, 0>>
      inc == IF "PResizeInc" \in f THEN <<size.width_inc, size.height_inc>> ELSE <<0, 0>>
      max == IF "PMaxSize" \in f THEN <<size.max_width, size.max_height>> ELSE <<0, 0>>
      min == IF "PMinSize" \in f THEN <<size.min_width, size.min_height>>
             ELSE IF "PBaseSize" \in f THEN <<size.base_width, size.base_height>>
             ELSE <<0, 0>>
  IN [s EXCEPT !.heap[c] =
        [@ EXCEPT !.basew = base[1], !.baseh = base[2], !.incw = inc[1], !.inch = inc[2],
                  !.maxw = max[1], !.maxh = max[2], !.minw = min[1], !.minh = min[2],
                  !.mina = IF "PAspect" \in f
                           THEN [n |-> size.min_aspect.y, d |-> size.min_aspect.x]
                           ELSE [n |-> 0, d |-> 1],
                  !.maxa = IF "PAspect" \in f
                           THEN [n |-> size.max_aspect.x, d |-> size.max_aspect.y]
                           ELSE [n |-> 0, d |-> 1],
                  !.isfixed = (max[1] # 0 /\ max[2] # 0
                               /\ max[1] = min[1] /\ max[2] = min[2])]]

\* updatewmhints(c); wmh is what XGetWMHints reads, wmh.present its success
updatewmhints(s, c, wmh) ==
  IF ~wmh.present THEN s
  ELSE LET s1 == IF c = s.mons[s.selmon].sel /\ wmh.urgency THEN s
                 ELSE [s EXCEPT !.heap[c].isurgent = wmh.urgency]
       IN [s1 EXCEPT !.heap[c].neverfocus = (wmh.inputhint /\ ~wmh.input)]

setfullscreen(s, c, fullscreen) ==
  LET cl == s.heap[c]
      m == s.mons[cl.mon]
  IN IF fullscreen /\ ~cl.isfullscreen
     THEN resizeclient(
            [s EXCEPT !.heap[c] = [cl EXCEPT !.isfullscreen = TRUE,
                                             !.oldstate = cl.isfloating,
                                             !.oldbw = cl.bw, !.bw = 0,
                                             !.isfloating = TRUE]],
            c, m.mx, m.my, m.mw, m.mh)
     ELSE IF ~fullscreen /\ cl.isfullscreen
     THEN LET s1 == [s EXCEPT !.heap[c] = [cl EXCEPT !.isfullscreen = FALSE,
                                                      !.isfloating = cl.oldstate,
                                                      !.bw = cl.oldbw,
                                                      !.x = cl.oldx, !.y = cl.oldy,
                                                      !.w = cl.oldw, !.h = cl.oldh]]
          IN arrange(resizeclient(s1, c, cl.oldx, cl.oldy, cl.oldw, cl.oldh), cl.mon)
     ELSE s

\* updatewindowtype(c); state and wtype are the two atoms read
updatewindowtype(s, c, state, wtype) ==
  LET s1 == IF state = "NetWMFullscreen" THEN setfullscreen(s, c, TRUE) ELSE s
  IN IF wtype = "NetWMWindowTypeDialog" THEN [s1 EXCEPT !.heap[c].isfloating = TRUE]
     ELSE s1

\* applyrules(c) on the client record cl being built; match is the set of
\* the rules whose class, instance and title all occur in the window's
RECURSIVE applyruleswalk(_, _, _, _)
applyruleswalk(s, cl, match, i) ==
  IF i > Len(rules) THEN cl
  ELSE IF i \in match
  THEN LET r == rules[i]
           ms == {k \in 1..Len(s.mons) : s.mons[k].num = r.monitor}
           cl1 == [cl EXCEPT !.isfloating = r.isfloating, !.tags = @ \cup r.tags]
           cl2 == IF ms # {}
                  THEN [cl1 EXCEPT !.mon = CHOOSE k \in ms : \A j \in ms : k <= j]
                  ELSE cl1
       IN applyruleswalk(s, cl2, match, i + 1)
  ELSE applyruleswalk(s, cl, match, i + 1)

\* maskedtags without the monitor's tagset as the default
maskedtagsnodefault(s, cl) == [cl EXCEPT !.tags = @ \cap TAGMASK]

\* c->tags = c->tags & TAGMASK ? c->tags & TAGMASK : c->mon->tagset[...]
maskedtags(s, cl) ==
  [cl EXCEPT !.tags = IF (@ \cap TAGMASK) # {} THEN @ \cap TAGMASK
                      ELSE s.mons[cl.mon].tagset[s.mons[cl.mon].seltags + 1]]

applyrules(s, cl, match) ==
  maskedtags(s, applyruleswalk(s, [cl EXCEPT !.isfloating = FALSE, !.tags = {}], match, 1))

\* manage that takes no window for transient
adoptrules(s, wa) ==
  LET c0 == [calloc EXCEPT !.x = wa.x, !.oldx = wa.x, !.y = wa.y, !.oldy = wa.y,
                           !.w = wa.width, !.oldw = wa.width,
                           !.h = wa.height, !.oldh = wa.height,
                           !.oldbw = wa.border_width,
                           !.wa_border_width = wa.border_width]
  IN applyrules(s, [c0 EXCEPT !.mon = s.selmon], wa.match)

\* manage: the new client with the window's geometry, on the monitor and
\* with the tags of the window it is transient for, or by the rules
adopt(s, wa) ==
  LET c0 == [calloc EXCEPT !.x = wa.x, !.oldx = wa.x, !.y = wa.y, !.oldy = wa.y,
                           !.w = wa.width, !.oldw = wa.width,
                           !.h = wa.height, !.oldh = wa.height,
                           !.oldbw = wa.border_width,
                           !.wa_border_width = wa.border_width]
      t == IF wa.trans # None THEN wintoclient(s, wa.trans) ELSE None
  IN IF t # None
     THEN [c0 EXCEPT !.mon = s.heap[t].mon, !.tags = s.heap[t].tags]
     ELSE applyrules(s, [c0 EXCEPT !.mon = s.selmon], wa.match)

\* manage: keep the window left of the right edge and right of the left edge
placex(cl, m) ==
  [cl EXCEPT !.x = MAX(IF @ + WIDTH(cl) > m.mx + m.mw THEN m.mx + m.mw - WIDTH(cl) ELSE @,
                       m.mx)]

\* manage: keep the window above the bottom edge and below the top edge or
\* the bar; then c->bw = borderpx
placey(cl, m) ==
  [cl EXCEPT !.y = MAX(IF @ + HEIGHT(cl) > m.my + m.mh THEN m.my + m.mh - HEIGHT(cl) ELSE @,
                       IF m.by = m.my /\ cl.x + CDiv(cl.w, 2) >= m.wx
                          /\ cl.x + CDiv(cl.w, 2) < m.wx + m.ww
                       THEN bh ELSE m.my),
             !.bw = borderpx]

place(s, cl) == placey(placex(cl, s.mons[cl.mon]), s.mons[cl.mon])

\* the client record cl becomes the Client of window w
alloc(s, w, cl) ==
  [s EXCEPT !.heap = [k \in DOMAIN s.heap \cup {w} |-> IF k = w THEN cl ELSE s.heap[k]]]

\* manage: if (!c->isfloating) c->isfloating = c->oldstate = trans != None || c->isfixed
floatdefault(s, w, trans) ==
  IF ~s.heap[w].isfloating
  THEN [s EXCEPT !.heap[w].isfloating = (trans # None \/ s.heap[w].isfixed),
                 !.heap[w].oldstate = (trans # None \/ s.heap[w].isfixed)]
  ELSE s

\* manage: XSetWindowBorder(.. SchemeNorm ..) and grabbuttons(c, 0) for the
\* new window w
xnew(s, w) ==
  [s EXCEPT !.xserver.border = [k \in DOMAIN @ \cup {w} |->
                                  IF k = w THEN "SchemeNorm" ELSE @[k]],
            !.xserver.focused = [k \in DOMAIN @ \cup {w} |->
                                   IF k = w THEN FALSE ELSE @[k]]]

\* manage: if (c->mon == selmon) unfocus(selmon->sel, 0);
unfocusformer(s, w) ==
  IF s.heap[w].mon = s.selmon THEN unfocus(s, s.mons[s.selmon].sel, FALSE) ELSE s

\* manage: attach, attachstack, append to _NET_CLIENT_LIST, unfocus the
\* selected client of the selected monitor, c->mon->sel = c
attachnew(s, w) ==
  [unfocusformer(attachstack(attach(s, w), w), w)
     EXCEPT !.netClientList = Append(@, w),
            !.mons[s.heap[w].mon].sel = w]

\* arrange(c->mon)
arrangemonof(s, c) == arrange(s, s.heap[c].mon)

\* manage(w, wa); wa also carries the properties manage reads from the window
manage(s, w, wa) ==
  focus(arrangemonof(attachnew(floatdefault(
          updatewmhints(
            updatesizehints(
              updatewindowtype(
                xnew(alloc(s, w, place(s, adopt(s, wa))), w),
                w, wa.state, wa.wtype),
              w, wa.size),
            w, wa.wmh),
          w, wa.trans), w), w), None)

RECURSIVE clientlistwalk(_, _)
clientlistwalk(s, i) ==
  IF i > Len(s.mons) THEN <<>> ELSE s.mons[i].clients \o clientlistwalk(s, i + 1)

\* updateclientlist without the XDeleteProperty that empties the property
updateclientlistappend(s) == [s EXCEPT !.netClientList = @ \o clientlistwalk(s, 1)]

updateclientlist(s) == [s EXCEPT !.netClientList = clientlistwalk(s, 1)]

\* unmanage(c, destroyed): free(c) takes c off the heap
unmanage(s, c, destroyed) ==
  LET mi == s.heap[c].mon
      s1 == detachstack(detach(s, c), c)
      s2 == [s1 EXCEPT !.heap = [k \in DOMAIN s1.heap \ {c} |-> s1.heap[k]],
                       !.xserver.border = [k \in DOMAIN @ \ {c} |-> @[k]],
                       !.xserver.focused = [k \in DOMAIN @ \ {c} |-> @[k]]]
  IN arrange(updateclientlist(focus(s2, None)), mi)

sendmon(s, c, mi) ==
  IF s.heap[c].mon = mi THEN s
  ELSE arrange(focus(attachstack(attach(
                 [detachstack(detach(unfocus(s, c, TRUE), c), c)
                    EXCEPT !.heap[c].mon = mi,
                           !.heap[c].tags = s.mons[mi].tagset[s.mons[mi].seltags + 1]],
                 c), c), None), None)

dirtomon(s, dir) ==
  IF dir > 0 THEN (IF s.selmon = Len(s.mons) THEN 1 ELSE s.selmon + 1)
  ELSE IF s.selmon = 1 THEN Len(s.mons)
  ELSE s.selmon - 1

\* ------------------------------------------------------------ user actions
\* focus(NULL); arrange(selmon);
arrangesel(s) == arrange(s, s.selmon)
refocus(s) == arrangesel(focus(s, None))

\* view writing the mask into the active slot, seltags left alone
viewinplace(s, ui) ==
  LET m == s.mons[s.selmon]
  IN IF (ui \cap TAGMASK) = m.tagset[m.seltags + 1] THEN s
     ELSE refocus([s EXCEPT !.mons[s.selmon].tagset[m.seltags + 1] =
                               IF (ui \cap TAGMASK) # {} THEN ui \cap TAGMASK ELSE @])

\* view without the early return for the tagset already shown
viewalways(s, ui) ==
  LET m == s.mons[s.selmon]
  IN refocus([s EXCEPT !.mons[s.selmon].seltags = 1 - @,
                       !.mons[s.selmon].tagset[(1 - m.seltags) + 1] =
                          IF (ui \cap TAGMASK) # {} THEN ui \cap TAGMASK ELSE @])

view(s, ui) ==
  LET m == s.mons[s.selmon]
  IN IF (ui \cap TAGMASK) = m.tagset[m.seltags + 1] THEN s
     ELSE refocus([s EXCEPT !.mons[s.selmon].seltags = 1 - @,
                            !.mons[s.selmon].tagset[(1 - m.seltags) + 1] =
                               IF (ui \cap TAGMASK) # {} THEN ui \cap TAGMASK ELSE @])

\* toggleview that may leave no tag shown
toggleviewany(s, ui) ==
  LET m == s.mons[s.selmon]
      newtagset == Xor(m.tagset[m.seltags + 1], ui \cap TAGMASK)
  IN refocus([s EXCEPT !.mons[s.selmon].tagset[m.seltags + 1] = newtagset])

toggleview(s, ui) ==
  LET m == s.mons[s.selmon]
      newtagset == Xor(m.tagset[m.seltags + 1], ui \cap TAGMASK)
  IN IF newtagset # {}
     THEN refocus([s EXCEPT !.mons[s.selmon].tagset[m.seltags + 1] = newtagset])
     ELSE s

\* tag storing the mask as it comes
tagunmasked(s, ui) ==
  LET c == s.mons[s.selmon].sel
  IN IF c # None /\ (ui \cap TAGMASK) # {}
     THEN refocus([s EXCEPT !.heap[c].tags = ui])
     ELSE s

tag(s, ui) ==
  LET c == s.mons[s.selmon].sel
  IN IF c # None /\ (ui \cap TAGMASK) # {}
     THEN refocus([s EXCEPT !.heap[c].tags = ui \cap TAGMASK])
     ELSE s

toggletag(s, ui) ==
  LET c == s.mons[s.selmon].sel
  IN IF c = None THEN s
     ELSE IF Xor(s.heap[c].tags, ui \cap TAGMASK) # {}
     THEN refocus([s EXCEPT !.heap[c].tags = Xor(@, ui \cap TAGMASK)])
     ELSE s

pop(s, c) == arrangemonof(focus(attach(detach(s, c), c), c), c)

\* zoom that pops the selected client, first tiled or not
zoomselected(s) ==
  LET m == s.mons[s.selmon]
  IN IF ltarrange(m) = "NULL" \/ m.sel = None \/ s.heap[m.sel].isfloating THEN s
     ELSE pop(s, m.sel)

\* zoom(arg).  pop(NULL) would dereference NULL; it needs a selected monitor
\* with a visible tiled client and no selection, a state no handler leaves
\* (every handler that can empty selmon->sel ends in focus(NULL)).
zoom(s) ==
  LET m == s.mons[s.selmon]
      c == m.sel
      tl == nexttiled(s, s.selmon)
      first == IF tl = <<>> THEN None ELSE tl[1]
      after == IF c = None THEN <<>>
               ELSE LET k == CHOOSE j \in 1..Len(m.clients) : m.clients[j] = c
                    IN SelectSeq(SubSeq(m.clients, k + 1, Len(m.clients)),
                                 LAMBDA e : istiled(s, e))
  IN IF ltarrange(m) = "NULL" \/ (c # None /\ s.heap[c].isfloating) THEN s
     ELSE IF c = first
     THEN (IF c = None \/ after = <<>> THEN s ELSE pop(s, after[1]))
     ELSE IF c = None THEN s
     ELSE pop(s, c)

focusstack(s, i) ==
  LET m == s.mons[s.selmon]
      cs == m.clients
      vis(j) == ISVISIBLE(s, cs[j])
      k == CHOOSE j \in 1..Len(cs) : cs[j] = m.sel
      next == {j \in (k + 1)..Len(cs) : vis(j)}
      all == {j \in 1..Len(cs) : vis(j)}
      prev == {j \in 1..(k - 1) : vis(j)}
      rest == {j \in k..Len(cs) : vis(j)}
      Min(A) == CHOOSE j \in A : \A l \in A : j <= l
      Max(A) == CHOOSE j \in A : \A l \in A : j >= l
      c == IF i > 0
           THEN (IF next # {} THEN cs[Min(next)]
                 ELSE IF all # {} THEN cs[Min(all)] ELSE None)
           ELSE (IF prev # {} THEN cs[Max(prev)]
                 ELSE IF rest # {} THEN cs[Max(rest)] ELSE None)
  IN IF m.sel = None THEN s
     ELSE IF c # None THEN focus(s, c) ELSE s

focusmon(s, i) ==
  IF Len(s.mons) = 1 \/ dirtomon(s, i) = s.selmon THEN s
  ELSE focus([unfocus(s, s.mons[s.selmon].sel, FALSE) EXCEPT !.selmon = dirtomon(s, i)],
             None)

tagmon(s, i) ==
  IF s.mons[s.selmon].sel = None \/ Len(s.mons) = 1 THEN s
  ELSE sendmon(s, s.mons[s.selmon].sel, dirtomon(s, i))

\* setlayout(arg); v = None is arg->v == NULL
setlayout(s, v) ==
  LET m == s.mons[s.selmon]
      sellt == IF v = None \/ v # m.lt[m.sellt + 1] THEN 1 - m.sellt ELSE m.sellt
      lt == IF v # None THEN [m.lt EXCEPT ![sellt + 1] = v] ELSE m.lt
      s1 == [s EXCEPT !.mons[s.selmon] =
                 [m EXCEPT !.sellt = sellt, !.lt = lt,
                           !.ltsymbol = [symbol |-> layouts[lt[sellt + 1]].symbol,
                                         n |-> 0]]]
  IN IF m.sel # None THEN arrange(s1, s1.selmon) ELSE s1

\* setmfact without its limits
setmfactany(s, f) ==
  LET m == s.mons[s.selmon]
      g == IF f < 100 THEN f + m.mfact ELSE f - 100
  IN IF ltarrange(m) = "NULL" THEN s
     ELSE arrange([s EXCEPT !.mons[s.selmon].mfact = g], s.selmon)

\* setmfact(arg); f is arg->f in hundredths
setmfact(s, f) ==
  LET m == s.mons[s.selmon]
      g == IF f < 100 THEN f + m.mfact ELSE f - 100
  IN IF ltarrange(m) = "NULL" \/ g < 10 \/ g > 90 THEN s
     ELSE arrange([s EXCEPT !.mons[s.selmon].mfact = g], s.selmon)

\* an incnmaster that counts on every monitor
incnmasterall(s, i) ==
  arrange([s EXCEPT !.mons = [k \in 1..Len(s.mons) |->
                                [s.mons[k] EXCEPT !.nmaster = MAX(@ + i, 0)]]],
          s.selmon)

incnmaster(s, i) ==
  arrange([s EXCEPT !.mons[s.selmon].nmaster = MAX(@ + i, 0)], s.selmon)

togglebar(s) ==
  arrange([s EXCEPT !.mons[s.selmon] = updatebarpos([@ EXCEPT !.showbar = ~@])],
          s.selmon)

\* togglefloating: resize(c, c->x, c->y, c->w, c->h, 0) if c now floats
resizefloating(s, c) ==
  IF s.heap[c].isfloating
  THEN resize(s, c, s.heap[c].x, s.heap[c].y, s.heap[c].w, s.heap[c].h, FALSE)
  ELSE s

togglefloating(s) ==
  LET c == s.mons[s.selmon].sel
  IN IF c = None THEN s
     ELSE IF s.heap[c].isfullscreen THEN s
     ELSE arrange(resizefloating(
                    [s EXCEPT !.heap[c].isfloating = (~@ \/ s.heap[c].isfixed)], c),
                  s.selmon)

\* ----------------------------------------------------------- event handlers
clientmessage(s, w, cme) ==
  LET c == wintoclient(s, w)
  IN IF c = None THEN s
     ELSE IF cme.message_type = "NetWMState"
     THEN (IF cme.fullscreen
           THEN setfullscreen(s, c, cme.l0 = 1 \/ (cme.l0 = 2 /\ ~s.heap[c].isfullscreen))
           ELSE s)
     ELSE IF cme.message_type = "NetActiveWindow"
     THEN (IF c # s.mons[s.selmon].sel /\ ~s.heap[c].isurgent
           THEN seturgent(s, c, TRUE) ELSE s)
     ELSE s

RECURSIVE fullscreenwalk(_, _, _)
\* the loop of configurenotify over the clients cs of monitor mi
fullscreenwalk(s, mi, k) ==
  LET m == s.mons[mi]
  IN IF k > Len(m.clients) THEN s
     ELSE IF s.heap[m.clients[k]].isfullscreen
     THEN fullscreenwalk(resizeclient(s, m.clients[k], m.mx, m.my, m.mw, m.mh), mi, k + 1)
     ELSE fullscreenwalk(s, mi, k + 1)

RECURSIVE fullscreenall(_, _)
fullscreenall(s, mi) ==
  IF mi > Len(s.mons) THEN s ELSE fullscreenall(fullscreenwalk(s, mi, 1), mi + 1)

\* configurenotify: the block under if (updategeom() || dirty); r is what
\* updategeom returned
geomchanged(r, dirty) ==
  IF r.dirty \/ dirty
  THEN arrange(focus(fullscreenall(r.s, 1), None), None)
  ELSE r.s

\* configurenotify(e) for ev->window == root; ev carries what updategeom reads
configurenotify(s, ev) ==
  geomchanged(updategeom([s EXCEPT !.sw = ev.width, !.sh = ev.height], ev.info, ev.ptr),
              s.sw # ev.width \/ s.sh # ev.height)

\* configurerequest: the requested position and size, relative to monitor m
requested(cl, m, ev) ==
  [cl EXCEPT !.oldx = IF "CWX" \in ev.value_mask THEN cl.x ELSE @,
             !.x = IF "CWX" \in ev.value_mask THEN m.mx + ev.x ELSE @,
             !.oldy = IF "CWY" \in ev.value_mask THEN cl.y ELSE @,
             !.y = IF "CWY" \in ev.value_mask THEN m.my + ev.y ELSE @,
             !.oldw = IF "CWWidth" \in ev.value_mask THEN cl.w ELSE @,
             !.w = IF "CWWidth" \in ev.value_mask THEN ev.width ELSE @,
             !.oldh = IF "CWHeight" \in ev.value_mask THEN cl.h ELSE @,
             !.h = IF "CWHeight" \in ev.value_mask THEN ev.height ELSE @]

\* configurerequest: center a floating client that crosses the right or the
\* bottom edge of its monitor
centered(cl, m) ==
  [cl EXCEPT !.x = IF cl.x + cl.w > m.mx + m.mw /\ cl.isfloating
                   THEN m.mx + (CDiv(m.mw, 2) - CDiv(WIDTH(cl), 2)) ELSE @,
             !.y = IF cl.y + cl.h > m.my + m.mh /\ cl.isfloating
                   THEN m.my + (CDiv(m.mh, 2) - CDiv(HEIGHT(cl), 2)) ELSE @]

configurerequest(s, w, ev) ==
  LET c == wintoclient(s, w)
  IN IF c = None THEN s
     ELSE IF "CWBorderWidth" \in ev.value_mask
     THEN [s EXCEPT !.heap[c].bw = ev.border_width]
     ELSE IF s.heap[c].isfloating \/ ltarrange(s.mons[s.selmon]) = "NULL"
     THEN [s EXCEPT !.heap[c] = centered(requested(@, s.mons[@.mon], ev),
                                         s.mons[@.mon])]
     ELSE s

\* propertynotify(e) for a client window; ev carries the property values read
propertynotify(s, w, ev) ==
  LET c == wintoclient(s, w)
  IN IF ev.state = "PropertyDelete" \/ c = None THEN s
     ELSE IF ev.atom = "XA_WM_TRANSIENT_FOR"
     THEN (IF ~s.heap[c].isfloating /\ ev.trans # None
           THEN LET s1 == [s EXCEPT !.heap[c].isfloating =
                                       (wintoclient(s, ev.trans) # None)]
                IN IF s1.heap[c].isfloating THEN arrange(s1, s1.heap[c].mon) ELSE s1
           ELSE s)
     ELSE IF ev.atom = "XA_WM_NORMAL_HINTS" THEN updatesizehints(s, c, ev.size)
     ELSE IF ev.atom = "XA_WM_HINTS" THEN updatewmhints(s, c, ev.wmh)
     ELSE IF ev.atom = "NetWMWindowType"
     THEN updatewindowtype(s, c, ev.netstate, ev.wtype)
     ELSE s

\* maprequest managing a window whether it has a client or not
maprequestagain(s, w, wa) ==
  IF ~wa.attributes \/ wa.override_redirect THEN s ELSE manage(s, w, wa)

\* wa.attributes: XGetWindowAttributes succeeded (the window still exists)
maprequest(s, w, wa) ==
  IF ~wa.attributes THEN s
  ELSE IF wa.override_redirect THEN s
  ELSE IF wintoclient(s, w) = None THEN manage(s, w, wa)
  ELSE s

destroynotify(s, w) ==
  IF wintoclient(s, w) # None THEN unmanage(s, w, TRUE) ELSE s

\* unmapnotify that takes a synthetic event for a real one
unmapnotifyany(s, w, send_event) ==
  IF wintoclient(s, w) # None THEN unmanage(s, w, FALSE) ELSE s

unmapnotify(s, w, send_event) ==
  IF wintoclient(s, w) # None /\ ~send_event THEN unmanage(s, w, FALSE) ELSE s

\* enternotify(e) with mode NotifyNormal; w = None is the root window, whose
\* monitor wintomon finds under the pointer ptr
enternotify(s, w, ptr) ==
  LET c == wintoclient(s, w)
      m == IF c # None THEN s.heap[c].mon ELSE recttomon(s, ptr.x, ptr.y, 1, 1)
  IN IF m # s.selmon
     THEN focus([unfocus(s, s.mons[s.selmon].sel, TRUE) EXCEPT !.selmon = m], c)
     ELSE IF c = None \/ c = s.mons[s.selmon].sel THEN s
     ELSE focus(s, c)

\* ---------------------------------------------------------- mouse actions
\* movemouse and resizemouse up to XGrabPointer: there is a selected client and
\* it is not fullscreen (restack changes only the X stacking order)
mousegrabany(s) == s.mons[s.selmon].sel # None

mousegrab(s) ==
  /\ s.mons[s.selmon].sel # None
  /\ ~s.heap[s.mons[s.selmon].sel].isfullscreen

\* the events the nested loop hands to handler[]; expose only draws the bar
nested(s, ev) ==
  IF ev.type = "ConfigureRequest" THEN configurerequest(s, ev.window, ev.request)
  ELSE IF ev.type = "MapRequest" THEN maprequest(s, ev.window, ev.wa)
  ELSE s

\* the end of both functions: a client lying mostly on another monitor is
\* sent there, and that monitor selected
mousedrop(s, c) ==
  LET cl == s.heap[c]
      m == recttomon(s, cl.x, cl.y, cl.w, cl.h)
  IN IF m # s.selmon THEN focus([sendmon(s, c, m) EXCEPT !.selmon = m], None)
     ELSE s

\* a tiled client pulled further than snap floats; a floating one is resized
mousepull(s, c, far, x, y, w, h) ==
  LET s1 == IF ~s.heap[c].isfloating /\ ltarrange(s.mons[s.selmon]) # "NULL" /\ far
            THEN togglefloating(s) ELSE s
  IN IF ltarrange(s1.mons[s1.selmon]) = "NULL" \/ s1.heap[c].isfloating
     THEN resize(s1, c, x, y, w, h, TRUE)
     ELSE s1

\* case MotionNotify of movemouse; (x, y) is where getrootptr found the pointer
movemotion(s, c, ocx, ocy, x, y, ev) ==
  LET m == s.mons[s.selmon]
      cl == s.heap[c]
      nx0 == ocx + (ev.x - x)
      ny0 == ocy + (ev.y - y)
      nx == IF Abs(m.wx - nx0) < snap THEN m.wx
            ELSE IF Abs((m.wx + m.ww) - (nx0 + WIDTH(cl))) < snap
                 THEN m.wx + m.ww - WIDTH(cl)
            ELSE nx0
      ny == IF Abs(m.wy - ny0) < snap THEN m.wy
            ELSE IF Abs((m.wy + m.wh) - (ny0 + HEIGHT(cl))) < snap
                 THEN m.wy + m.wh - HEIGHT(cl)
            ELSE ny0
  IN mousepull(s, c, Abs(nx - cl.x) > snap \/ Abs(ny - cl.y) > snap,
               nx, ny, cl.w, cl.h)

RECURSIVE moveloop(_, _, _, _, _, _, _, _)
moveloop(s, c, ocx, ocy, x, y, evs, i) ==
  IF i > Len(evs) THEN s
  ELSE moveloop(IF evs[i].type = "MotionNotify"
                THEN movemotion(s, c, ocx, ocy, x, y, evs[i])
                ELSE nested(s, evs[i]),
                c, ocx, ocy, x, y, evs, i + 1)

\* movemouse; d.grab: XGrabPointer succeeded, d.ptr: getrootptr did, at (d.x,
\* d.y); d.events: the events up to the ButtonRelease (a MotionNotify within
\* 1000 / 60 ms of the one before is dropped, and is left out of d.events)
movemouse(s, d) ==
  LET c == s.mons[s.selmon].sel
  IN IF ~mousegrab(s) THEN s
     ELSE IF ~d.grab \/ ~d.ptr THEN s
     ELSE mousedrop(moveloop(s, c, s.heap[c].x, s.heap[c].y, d.x, d.y,
                             d.events, 1), c)

\* case MotionNotify of resizemouse
resizemotion(s, c, ocx, ocy, ev) ==
  LET m == s.mons[s.selmon]
      cl == s.heap[c]
      cm == s.mons[cl.mon]
      nw == MAX(ev.x - ocx - 2 * cl.bw + 1, 1)
      nh == MAX(ev.y - ocy - 2 * cl.bw + 1, 1)
      within == /\ cm.wx + nw >= m.wx /\ cm.wx + nw <= m.wx + m.ww
                /\ cm.wy + nh >= m.wy /\ cm.wy + nh <= m.wy + m.wh
  IN mousepull(s, c, within /\ (Abs(nw - cl.w) > snap \/ Abs(nh - cl.h) > snap),
               cl.x, cl.y, nw, nh)

RECURSIVE resizeloop(_, _, _, _, _, _)
resizeloop(s, c, ocx, ocy, evs, i) ==
  IF i > Len(evs) THEN s
  ELSE resizeloop(IF evs[i].type = "MotionNotify"
                  THEN resizemotion(s, c, ocx, ocy, evs[i])
                  ELSE nested(s, evs[i]),
                  c, ocx, ocy, evs, i + 1)

resizemouse(s, d) ==
  LET c == s.mons[s.selmon].sel
  IN IF ~mousegrab(s) THEN s
     ELSE IF ~d.grab THEN s
     ELSE mousedrop(resizeloop(s, c, s.heap[c].x, s.heap[c].y, d.events, 1), c)

\* -------------------------------------------------------------- X errors
\* xerror(dpy, ee): 0 is returned, or the error is printed and handed to
\* xerrorxlib, Xlib's default handler that checkotherwm kept
xerrorquiet(request_code, error_code) ==
  IF error_code \in {"BadWindow", "BadMatch"}
  THEN [ret |-> 0, xerrorxlib |-> FALSE]
  ELSE [ret |-> None, xerrorxlib |-> TRUE]

xerror(request_code, error_code) ==
  IF \/ error_code = "BadWindow"
     \/ request_code = "X_SetInputFocus" /\ error_code = "BadMatch"
     \/ request_code = "X_PolyText8" /\ error_code = "BadDrawable"
     \/ request_code = "X_PolyFillRectangle" /\ error_code = "BadDrawable"
     \/ request_code = "X_PolySegment" /\ error_code = "BadDrawable"
     \/ request_code = "X_ConfigureWindow" /\ error_code = "BadMatch"
     \/ request_code = "X_GrabButton" /\ error_code = "BadAccess"
     \/ request_code = "X_GrabKey" /\ error_code = "BadAccess"
     \/ request_code = "X_CopyArea" /\ error_code = "BadDrawable"
  THEN [ret |-> 0, xerrorxlib |-> FALSE]
  ELSE [ret |-> None, xerrorxlib |-> TRUE]

\* ------------------------------------------------------------------- main
EXIT_SUCCESS == 0

\* die(fmt, ...) of util.c: the message is printed on stderr and the process
\* exits with a status that is not 0
die(msg) == [printed |-> msg, status |-> 1]

\* main; argv without argv[0], so that argc is Len(argv) + 1.  display:
\* XOpenDisplay gave a display; otherwm: checkotherwm's XSelectInput on the
\* root ended in xerrorstart.  The run of the window manager itself is
\* told by the machine; here it returns.
main(argv, display, otherwm) ==
  IF Len(argv) + 1 = 2 /\ argv[1] = "-v" THEN die("dwm-VERSION")
  ELSE IF Len(argv) + 1 # 1 THEN die("usage: dwm [-v]")
  ELSE IF ~display THEN die("dwm: cannot open display")
  ELSE IF otherwm THEN die("dwm: another window manager is already running")
  ELSE [printed |-> "", status |-> EXIT_SUCCESS]

\* -------------------------------------------------------------- the inputs
\* WM_NORMAL_HINTS values: a minimum larger than a monitor with increments,
\* a fixed size, and an aspect ratio of 1 with a height increment
MinHints ==
  [NoSizeHints EXCEPT !.flags = {"PMinSize", "PResizeInc"}, !.min_width = 14,
                      !.min_height = 3, !.width_inc = 4, !.height_inc = 3]
FixedHints ==
  [NoSizeHints EXCEPT !.flags = {"PMinSize", "PMaxSize"}, !.min_width = 5,
                      !.min_height = 3, !.max_width = 5, !.max_height = 3]
AspectHints ==
  [NoSizeHints EXCEPT !.flags = {"PAspect", "PResizeInc"}, !.height_inc = 3]

NoWMHints == [present |-> FALSE, urgency |-> FALSE, inputhint |-> FALSE, input |-> FALSE]
UrgentHint == [NoWMHints EXCEPT !.present = TRUE, !.urgency = TRUE]

\* the attributes and properties of the windows that ask to be mapped
PlainWindow ==
  [x |-> 0, y |-> 0, width |-> 6, height |-> 4, border_width |-> 0,
   override_redirect |-> FALSE, attributes |-> TRUE, trans |-> None, match |-> {},
   state |-> "none", wtype |-> "none", size |-> NoSizeHints, wmh |-> NoWMHints]

WindowKinds ==
  { PlainWindow,
    [PlainWindow EXCEPT !.size = MinHints, !.border_width = 2],
    [PlainWindow EXCEPT !.size = FixedHints],
    [PlainWindow EXCEPT !.state = "NetWMFullscreen", !.x = 20, !.y = 7],
    [PlainWindow EXCEPT !.wtype = "NetWMWindowTypeDialog", !.match = {1},
                        !.size = AspectHints],
    [PlainWindow EXCEPT !.match = {2}, !.wmh = UrgentHint],
    [PlainWindow EXCEPT !.override_redirect = TRUE],
    [PlainWindow EXCEPT !.attributes = FALSE] }

\* screen layouts: the X screen size and what XineramaQueryScreens reports
Rect(x, y, w, h) == [x |-> x, y |-> y, w |-> w, h |-> h]
Screens ==
  { [width |-> 12, height |-> 8, info |-> <<Rect(0, 0, 12, 8)>>],
    [width |-> 24, height |-> 8,
     info |-> <<Rect(0, 0, 12, 8), Rect(0, 0, 12, 8), Rect(12, 0, 12, 8)>>],
    [width |-> 16, height |-> 10, info |-> <<Rect(0, 0, 16, 10)>>] }

\* pointer positions below the bar: on the first monitor, and right of x = 12
Pointers == { [x |-> 1, y |-> 3], [x |-> 13, y |-> 3] }

\* the Arg values of keys[] and buttons[] in config.def.h, for two tag keys
TagKeys == { {0}, {1} }
ViewArgs == TagKeys \cup { {}, AllBits }
TagArgs == TagKeys \cup { AllBits }
Directions == { -1, 1 }
LayoutArgs == { None, LtTile, LtFloat, LtMonocle }
MfactArgs == { -5, 5 }

ConfigureRequests ==
  LET ev == [value_mask |-> {}, x |-> 0, y |-> 0, width |-> 0, height |-> 0,
             border_width |-> 0]
  IN { [ev EXCEPT !.value_mask = {"CWBorderWidth"}, !.border_width = 3],
       [ev EXCEPT !.value_mask = {"CWWidth", "CWHeight"}, !.width = 1, !.height = 1],
       [ev EXCEPT !.value_mask = {"CWX", "CWY"}, !.x = 10, !.y = 7] }

ClientMessages ==
  { [message_type |-> "NetWMState", fullscreen |-> TRUE, l0 |-> 0],
    [message_type |-> "NetWMState", fullscreen |-> TRUE, l0 |-> 1],
    [message_type |-> "NetWMState", fullscreen |-> TRUE, l0 |-> 2],
    [message_type |-> "NetActiveWindow", fullscreen |-> FALSE, l0 |-> 0] }

PropertyEvents(w) ==
  LET ev == [atom |-> "XA_WM_NAME", state |-> "PropertyNewValue", trans |-> None,
             size |-> NoSizeHints, wmh |-> NoWMHints, netstate |-> "none",
             wtype |-> "none"]
  IN { [ev EXCEPT !.atom = "XA_WM_TRANSIENT_FOR", !.trans = t] :
         t \in Windows \ {w} }
     \cup { [ev EXCEPT !.atom = "XA_WM_NORMAL_HINTS", !.size = MinHints],
            [ev EXCEPT !.atom = "XA_WM_HINTS", !.wmh = UrgentHint],
            [ev EXCEPT !.atom = "XA_WM_HINTS", !.state = "PropertyDelete"] }
     \cup { [ev EXCEPT !.atom = "NetWMWindowType", !.netstate = "NetWMFullscreen"],
            [ev EXCEPT !.atom = "NetWMWindowType", !.wtype = "NetWMWindowTypeDialog"] }

\* ----------------------------------------------------------- the machine
\* no call of applysizehints probed yet
NoProbe ==
  [stage |-> 0, interact |-> FALSE, arg |-> Geom(0, 0, 0, 0), out |-> Geom(0, 0, 0, 0),
   again |-> Geom(0, 0, 0, 0)]

\* setup(): no client yet, the monitors of the first updategeom()
Init ==
  \E scr \in Screens, ptr \in Pointers :
    LET s0 == [mons |-> <<>>, selmon |-> None, heap |-> [k \in {} |-> calloc],
               sw |-> scr.width, sh |-> scr.height, netClientList |-> <<>>,
               xserver |-> NoX, arranged |-> {}]
        s1 == updategeom(s0, scr.info, ptr).s
    IN /\ mons = s1.mons
       /\ selmon = s1.selmon
       /\ heap = s1.heap
       /\ sw = s1.sw
       /\ sh = s1.sh
       /\ netClientList = <<>>
       /\ xserver = NoX
       /\ arranged = {}
       /\ last = [ev |-> "setup", win |-> None, pre |-> calloc]
       /\ probe = NoProbe
       /\ running = TRUE
       /\ pc = "run"
       /\ nev = 0

Event(name, w) == [ev |-> name, win |-> w, pre |-> calloc]

MapRequest ==
  /\ nev < MaxEvents
  /\ \E w \in Windows, k \in WindowKinds, t \in {None} \cup Windows :
       /\ t # w
       /\ \A v \in 1..(w - 1) : v \in DOMAIN heap
       /\ t # None => k = PlainWindow
       /\ Commit(maprequest(S, w, [k EXCEPT !.trans = t]), Event("maprequest", w))

DestroyNotify ==
  /\ nev < MaxEvents
  /\ \E w \in Windows : Commit(destroynotify(S, w), Event("destroynotify", w))

UnmapNotify ==
  /\ nev < MaxEvents
  /\ \E w \in Windows, send_event \in BOOLEAN :
       Commit(unmapnotify(S, w, send_event), Event("unmapnotify", w))

ConfigureRequest ==
  /\ nev < MaxEvents
  /\ \E w \in Windows, ev \in ConfigureRequests :
       Commit(configurerequest(S, w, ev), Event("configurerequest", w))

ConfigureNotify ==
  /\ nev < MaxEvents
  /\ \E scr \in Screens, ptr \in Pointers :
       Commit(configurenotify(S, [width |-> scr.width, height |-> scr.height,
                                  info |-> scr.info, ptr |-> ptr]),
              Event("configurenotify", None))

\* a ClientMessage; the event remembers the client as it was when the message
\* turns a client that is not fullscreen into a fullscreen one
ClientMessage ==
  /\ nev < MaxEvents
  /\ \E w \in Windows, cme \in ClientMessages :
       LET s1 == clientmessage(S, w, cme)
           on == w \in DOMAIN heap /\ ~heap[w].isfullscreen /\ s1.heap[w].isfullscreen
           off == w \in DOMAIN heap /\ heap[w].isfullscreen /\ ~s1.heap[w].isfullscreen
       IN Commit(s1, [ev |-> IF on THEN "setfullscreen1"
                             ELSE IF off THEN "setfullscreen0" ELSE "clientmessage",
                      win |-> w,
                      pre |-> IF on THEN heap[w] ELSE calloc])

PropertyNotify ==
  /\ nev < MaxEvents
  /\ \E w \in Windows : \E ev \in PropertyEvents(w) :
       Commit(propertynotify(S, w, ev), Event("propertynotify", w))

EnterNotify ==
  /\ nev < MaxEvents
  /\ \E w \in {None} \cup Windows, ptr \in Pointers :
       Commit(enternotify(S, w, ptr), Event("enternotify", w))

View ==
  /\ nev < MaxEvents
  /\ \E ui \in ViewArgs : Commit(view(S, ui), Event("view", None))

ToggleView ==
  /\ nev < MaxEvents
  /\ \E ui \in TagKeys : Commit(toggleview(S, ui), Event("toggleview", None))

Tag ==
  /\ nev < MaxEvents
  /\ \E ui \in TagArgs : Commit(tag(S, ui), Event("tag", mons[selmon].sel))

ToggleTag ==
  /\ nev < MaxEvents
  /\ \E ui \in TagKeys : Commit(toggletag(S, ui), Event("toggletag", mons[selmon].sel))

Zoom ==
  /\ nev < MaxEvents
  /\ Commit(zoom(S), Event("zoom", mons[selmon].sel))

FocusStack ==
  /\ nev < MaxEvents
  /\ \E i \in Directions : Commit(focusstack(S, i), Event("focusstack", None))

FocusMon ==
  /\ nev < MaxEvents
  /\ \E i \in Directions : Commit(focusmon(S, i), Event("focusmon", None))

TagMon ==
  /\ nev < MaxEvents
  /\ \E i \in Directions : Commit(tagmon(S, i), Event("tagmon", mons[selmon].sel))

SetLayout ==
  /\ nev < MaxEvents
  /\ \E v \in LayoutArgs : Commit(setlayout(S, v), Event("setlayout", None))

SetMfact ==
  /\ nev < MaxEvents
  /\ \E f \in MfactArgs : Commit(setmfact(S, f), Event("setmfact", None))

IncNMaster ==
  /\ nev < MaxEvents
  /\ \E i \in Directions : Commit(incnmaster(S, i), Event("incnmaster", None))

ToggleBar ==
  /\ nev < MaxEvents
  /\ Commit(togglebar(S), Event("togglebar", None))

ToggleFloating ==
  /\ nev < MaxEvents
  /\ Commit(togglefloating(S), Event("togglefloating", mons[selmon].sel))

Next ==
  \/ MapRequest
  \/ DestroyNotify
  \/ UnmapNotify
  \/ ConfigureRequest
  \/ ConfigureNotify
  \/ ClientMessage
  \/ PropertyNotify
  \/ EnterNotify
  \/ View
  \/ ToggleView
  \/ Tag
  \/ ToggleTag
  \/ Zoom
  \/ FocusStack
  \/ FocusMon
  \/ TagMon
  \/ SetLayout
  \/ SetMfact
  \/ IncNMaster
  \/ ToggleBar
  \/ ToggleFloating

Spec == Init /\ [][Next]_vars

\* ------------------------------------------------------ quit and cleanup
\* the events handled before quit, in the specification of the way out
MaxQuitEvents == 3

\* quit: the key binding's handler clears running
Quit ==
  /\ running
  /\ pc = "run"
  /\ running' = FALSE
  /\ last' = Event("quit", None)
  /\ nev' = nev + 1
  /\ UNCHANGED <<mons, selmon, heap, sw, sh, netClientList, xserver, arranged, probe, pc>>

\* cleanup up to its loop: view(~0), then the selected monitor's layout is foo
cleanupview(s) ==
  LET s1 == view(s, AllBits)
  IN [s1 EXCEPT !.mons[s1.selmon].lt[s1.mons[s1.selmon].sellt + 1] = LtFoo]

\* a loop that empties the selected monitor only
stackedsel(s) ==
  IF s.mons[s.selmon].stack # <<>> THEN s.selmon ELSE None

\* the monitor the loop of cleanup is at: the first one with a focus stack
stacked(s) ==
  LET ms == { i \in 1..Len(s.mons) : s.mons[i].stack # <<>> }
  IN IF ms = {} THEN None ELSE CHOOSE i \in ms : \A j \in ms : i <= j

\* run finds running cleared and returns; main calls cleanup
RunReturns ==
  /\ ~running
  /\ pc = "run"
  /\ \E s1 \in {cleanupview(S)} :
        /\ mons' = s1.mons
        /\ selmon' = s1.selmon
        /\ heap' = s1.heap
        /\ netClientList' = s1.netClientList
        /\ xserver' = s1.xserver
        /\ arranged' = s1.arranged
  /\ pc' = "cleanup"
  /\ last' = Event("cleanup", None)
  /\ UNCHANGED <<sw, sh, probe, nev, running>>

\* one turn of while (m->stack) unmanage(m->stack, 0)
CleanupUnmanage ==
  /\ pc = "cleanup"
  /\ stacked(S) # None
  /\ \E c \in {Head(mons[stacked(S)].stack)} : \E s1 \in {unmanage(S, c, FALSE)} :
        /\ mons' = s1.mons
        /\ selmon' = s1.selmon
        /\ heap' = s1.heap
        /\ netClientList' = s1.netClientList
        /\ xserver' = s1.xserver
        /\ arranged' = s1.arranged
        /\ last' = [ev |-> "unmanage", win |-> c, pre |-> heap[c]]
  /\ UNCHANGED <<sw, sh, probe, nev, running, pc>>

\* while (mons) cleanupmon(mons), and the rest of cleanup and of main
CleanupMons ==
  /\ pc = "cleanup"
  /\ stacked(S) = None
  /\ mons' = <<>>
  /\ pc' = "exit"
  /\ arranged' = {}
  /\ xserver' = [xserver EXCEPT !.NetActiveWindow = None]
  /\ last' = Event("cleanupmon", None)
  /\ UNCHANGED <<selmon, heap, sw, sh, netClientList, probe, nev, running>>

NextQuit ==
  \/ nev < MaxQuitEvents /\ Next
  \/ Quit
  \/ RunReturns
  \/ CleanupUnmanage
  \/ CleanupMons

\* The steps of main after run, told by where they leave main: of the steps
\* of NextQuit these are the steps of RunReturns, CleanupUnmanage and
\* CleanupMons, each enabled exactly when that action is.
returns == ~running /\ pc = "run" /\ pc' = "cleanup"
unmanages ==
  /\ pc = "cleanup"
  /\ stacked(S) # None
  /\ pc' = "cleanup"
  /\ last' = [ev |-> "unmanage", win |-> Head(mons[stacked(S)].stack),
              pre |-> heap[Head(mons[stacked(S)].stack)]]
exits == pc = "cleanup" /\ stacked(S) = None /\ pc' = "exit"

\* main runs on: once run has returned, nothing holds up cleanup's loops
SpecQuit ==
  /\ Init
  /\ [][NextQuit]_vars
  /\ WF_pc(returns)
  /\ WF_last(unmanages)
  /\ WF_pc(exits)

\* ---------------------------------------------- the mouse in the machine
\* the events handled in the specification with the mouse actions
MaxMouseEvents == 3

\* what the pointer does between the button press and its release: the grab
\* fails, or getrootptr does, or the pointer released at once, or after one
\* event: a motion, or a request of a client
Drags ==
  LET d == [grab |-> TRUE, ptr |-> TRUE, x |-> 2, y |-> 2, events |-> <<>>]
      e == [type |-> "MotionNotify", x |-> 0, y |-> 0, window |-> None,
            request |-> CHOOSE r \in ConfigureRequests : TRUE, wa |-> PlainWindow]
  IN { d, [d EXCEPT !.grab = FALSE], [d EXCEPT !.ptr = FALSE] }
     \cup { [d EXCEPT !.events = <<[e EXCEPT !.x = x, !.y = y]>>] :
              x \in {3, 50}, y \in {2, 50} }
     \cup { [d EXCEPT !.events = <<[e EXCEPT !.type = "ConfigureRequest",
                                             !.window = w, !.request = r]>>] :
              w \in Windows, r \in ConfigureRequests }
     \cup { [d EXCEPT !.events = <<[e EXCEPT !.type = "MapRequest", !.window = w]>>] :
              w \in Windows }

\* a button binding's handler: it always returns, whatever it has done
Button(s, ev) ==
  /\ running
  /\ pc = "run"
  /\ nev < MaxMouseEvents
  /\ mons' = s.mons
  /\ selmon' = s.selmon
  /\ heap' = s.heap
  /\ netClientList' = s.netClientList
  /\ xserver' = s.xserver
  /\ arranged' = s.arranged
  /\ last' = ev
  /\ nev' = nev + 1
  /\ UNCHANGED <<sw, sh, probe, running, pc>>

MoveMouse ==
  \E d \in Drags : Button(movemouse(S, d), Event("movemouse", mons[selmon].sel))

ResizeMouse ==
  \E d \in Drags : Button(resizemouse(S, d), Event("resizemouse", mons[selmon].sel))

NextMouse ==
  \/ nev < MaxMouseEvents /\ Next
  \/ MoveMouse
  \/ ResizeMouse

SpecMouse == Init /\ [][NextMouse]_vars

\* ------------------------------------------- applysizehints on its own
\* WM_NORMAL_HINTS built from a minimum, a maximum, the increments, a base
\* size and an aspect range (0: none, 1: exactly 1, 2: minimum 1/2, maximum 2)
SizeHints(min, max, incw, inch, base, asp) ==
  [flags |-> {"PSize"} \cup (IF min > 0 THEN {"PMinSize"} ELSE {})
                       \cup (IF max > 0 THEN {"PMaxSize"} ELSE {})
                       \cup (IF incw > 0 \/ inch > 0 THEN {"PResizeInc"} ELSE {})
                       \cup (IF base > 0 THEN {"PBaseSize"} ELSE {})
                       \cup (IF asp > 0 THEN {"PAspect"} ELSE {}),
   base_width |-> base, base_height |-> base, min_width |-> min, min_height |-> min,
   max_width |-> max, max_height |-> max, width_inc |-> incw, height_inc |-> inch,
   min_aspect |-> [x |-> 1, y |-> asp], max_aspect |-> [x |-> asp, y |-> 1]]

\* the hints of a terminal: cells of 80x16, base 0x0, at least one cell
CellHints ==
  [NoSizeHints EXCEPT !.flags = {"PBaseSize", "PMinSize", "PResizeInc"},
                      !.min_width = 80, !.min_height = 16,
                      !.width_inc = 80, !.height_inc = 16]

ProbeHints ==
  { SizeHints(min, max, incw, inch, base, asp) :
      min \in {0, 3}, max \in {0, 10}, incw \in {0, 4}, inch \in {0, 3},
      base \in {0, 1}, asp \in {0, 1, 2} }
  \cup { CellHints }

\* the size a mouse resize proposes to the terminal
CellGeom == Geom(0, 3, 837, 409)

ProbeGeoms ==
  { Geom(x, 3, w, h) : x \in {-30, 0, 13}, w \in {1, 7, 25}, h \in {1, 7, 25} }
  \cup { CellGeom }

\* one monitor and one managed window with the hints under test
InitHints ==
  \E hints \in ProbeHints :
    LET s0 == [mons |-> <<>>, selmon |-> None, heap |-> [k \in {} |-> calloc],
               sw |-> 12, sh |-> 8, netClientList |-> <<>>, xserver |-> NoX,
               arranged |-> {}]
        s1 == updategeom(s0, <<Rect(0, 0, 12, 8)>>, [x |-> 1, y |-> 3]).s
        s2 == manage(s1, 1, [PlainWindow EXCEPT !.size = hints])
    IN /\ mons = s2.mons
       /\ selmon = s2.selmon
       /\ heap = s2.heap
       /\ sw = s2.sw
       /\ sh = s2.sh
       /\ netClientList = s2.netClientList
       /\ xserver = s2.xserver
       /\ arranged = {}
       /\ last = Event("maprequest", 1)
       /\ probe = NoProbe
       /\ running = TRUE
       /\ pc = "run"
       /\ nev = 0

\* applysizehints(c, &x, &y, &w, &h, interact) on a proposed geometry
ApplySizeHints ==
  /\ probe.stage = 0
  /\ \E g \in ProbeGeoms, interact \in BOOLEAN :
       LET r == applysizehints(S, 1, g.x, g.y, g.w, g.h, interact)
       IN probe' = [probe EXCEPT !.stage = 1, !.interact = interact, !.arg = g,
                                 !.out = r]
  /\ UNCHANGED <<mons, selmon, heap, sw, sh, netClientList, xserver, arranged, last, nev,
               running, pc>>

\* applysizehints again, on the geometry the first call returned
ReapplySizeHints ==
  /\ probe.stage = 1
  /\ LET g == probe.out
         r == applysizehints(S, 1, g.x, g.y, g.w, g.h, probe.interact)
     IN probe' = [probe EXCEPT !.stage = 2, !.again = r]
  /\ UNCHANGED <<mons, selmon, heap, sw, sh, netClientList, xserver, arranged, last, nev,
               running, pc>>

NextHints ==
  \/ ApplySizeHints
  \/ ReapplySizeHints

SpecHints == InitHints /\ [][NextHints]_vars

\* ------------------------------------------- the layouts on their own
\* usable areas: a screen of 1600x1000 and one of 12x8, bar hidden
TileAreas == { [ww |-> 1600, wh |-> 1000], [ww |-> 12, wh |-> 8] }
TileMasters == { 0, 1, 2 }
TileLayouts == { LtTile, LtFloat, LtMonocle }
MaxTiled == 4

\* a managed client of the first monitor on tag 1, as manage leaves it
\* before the first arrange
tileclient(floating) ==
  [calloc EXCEPT !.mon = 1, !.tags = {0}, !.bw = borderpx, !.w = 6, !.h = 4,
                 !.oldw = 6, !.oldh = 4, !.isfloating = floating,
                 !.oldstate = floating]

\* one monitor of area a with n clients, clients = <<1, .., n>>, the
\* selected client sl (if any) at the head of the stack;
\* client f (if any) floats, and client 1 has MinHints when withhints
\* (on the large screen only, and the small one has at most four clients:
\* beyond that tile's unsigned m->wh - ty wraps, see tilewalk)
tilestate(a, nm, lt, n, f, sl, withhints) ==
  LET m0 == updatebarpos([createmon EXCEPT !.showbar = FALSE, !.mw = a.ww,
                                           !.mh = a.wh, !.ww = a.ww, !.wh = a.wh])
      m == [m0 EXCEPT !.nmaster = nm, !.lt = <<lt, LtFloat>>,
                      !.ltsymbol = [symbol |-> layouts[lt].symbol, n |-> 0],
                      !.clients = [k \in 1..n |-> k],
                      !.stack = IF n = 0 THEN <<>>
                                ELSE <<sl>> \o Remove([k \in 1..n |-> k], sl),
                      !.sel = sl]
      s0 == xsettled([mons |-> <<m>>, selmon |-> 1,
                      heap |-> [k \in 1..n |-> tileclient(k = f)],
                      sw |-> a.ww, sh |-> a.wh, netClientList |-> [k \in 1..n |-> k],
                      xserver |-> NoX, arranged |-> {}])
  IN IF withhints THEN updatesizehints(s0, 1, MinHints) ELSE s0

InitTile ==
  \E a \in TileAreas, nm \in TileMasters, lt \in TileLayouts :
    \E n \in 0..(IF a.ww = 1600 THEN MaxTiled ELSE 4) :
    \E f \in 0..n, sl \in (IF n = 0 THEN {None} ELSE 1..n),
       withhints \in { h \in BOOLEAN : h => (a.ww = 1600 /\ n > 0) } :
      LET s0 == tilestate(a, nm, lt, n, f, sl, withhints)
      IN /\ mons = s0.mons
         /\ selmon = s0.selmon
         /\ heap = s0.heap
         /\ sw = s0.sw
         /\ sh = s0.sh
         /\ netClientList = s0.netClientList
         /\ xserver = s0.xserver
         /\ arranged = {}
         /\ last = Event("setup", None)
         /\ probe = NoProbe
         /\ running = TRUE
         /\ pc = "run"
         /\ nev = 0

\* arrangemon(m) on the monitor
ArrangeMon ==
  /\ probe.stage = 0
  /\ LET s1 == arrangemon(S, 1)
     IN /\ mons' = s1.mons
        /\ heap' = s1.heap
        /\ arranged' = s1.arranged
  /\ probe' = [probe EXCEPT !.stage = 1]
  /\ last' = Event("arrangemon", None)
  /\ UNCHANGED <<selmon, sw, sh, netClientList, xserver, nev, running, pc>>

\* zoom on the arranged monitor
ZoomTile ==
  /\ probe.stage = 1
  /\ LET s1 == zoom(S)
     IN /\ mons' = s1.mons
        /\ heap' = s1.heap
        /\ selmon' = s1.selmon
        /\ xserver' = s1.xserver
        /\ arranged' = s1.arranged
  /\ probe' = [probe EXCEPT !.stage = 2]
  /\ last' = Event("zoom", mons[selmon].sel)
  /\ UNCHANGED <<sw, sh, netClientList, nev, running, pc>>

NextTile == ArrangeMon \/ ZoomTile

SpecTile == InitTile /\ [][NextTile]_vars

\* ------------------------------------------ updategeom on its own
MaxMons == 3
MaxMoved == 3
\* the i-th of the screens side by side that Xinerama reports
geomrect(i) == Rect(12 * (i - 1), 0, 12, 8)
\* pointer positions: one on each screen
GeomPointers == { [x |-> 12 * (i - 1) + 1, y |-> 3] : i \in 1..MaxMons }

\* the clients with monitor i among 1..k, in ascending or descending order
RECURSIVE homed(_, _, _, _)
homed(home, i, k, up) ==
  IF k = 0 THEN <<>>
  ELSE IF home[k] # i THEN homed(home, i, k - 1, up)
  ELSE IF up THEN Append(homed(home, i, k - 1, up), k)
  ELSE <<k>> \o homed(home, i, k - 1, up)

\* n monitors side by side with k clients, client c on monitor home[c];
\* clients lists ascending, stacks ascending or descending, the head of
\* each stack selected
geomstate(n, k, home, sel, up) ==
  xsettled(
    [mons |-> [i \in 1..n |->
                 [setgeom(createmon, i - 1, geomrect(i))
                    EXCEPT !.clients = homed(home, i, k, TRUE),
                           !.stack = homed(home, i, k, up),
                           !.sel = IF homed(home, i, k, up) = <<>> THEN None
                                   ELSE Head(homed(home, i, k, up))]],
     selmon |-> sel,
     heap |-> [c \in 1..k |-> [tileclient(FALSE) EXCEPT !.mon = home[c]]],
     sw |-> 12 * n, sh |-> 8, netClientList |-> [c \in 1..k |-> c],
     xserver |-> NoX, arranged |-> {}])

InitGeom ==
  \E n \in 2..MaxMons, k \in 0..MaxMoved, up \in BOOLEAN :
    \E home \in [1..k -> 1..n], sel \in 1..n :
      LET s0 == geomstate(n, k, home, sel, up)
      IN /\ mons = s0.mons
         /\ selmon = s0.selmon
         /\ heap = s0.heap
         /\ sw = s0.sw
         /\ sh = s0.sh
         /\ netClientList = s0.netClientList
         /\ xserver = s0.xserver
         /\ arranged = {}
         /\ last = Event("setup", None)
         /\ probe = NoProbe
         /\ running = TRUE
         /\ pc = "run"
         /\ nev = 0

\* updategeom() when Xinerama reports the first nn screens, the first one
\* twice when dup; probe keeps the state before the call, what the call
\* returned and where the pointer was
UpdateGeom ==
  /\ probe.stage = 0
  /\ \E nn \in 1..(Len(mons) - 1), dup \in BOOLEAN, ptr \in GeomPointers :
       LET r == updategeom(S, (IF dup THEN <<geomrect(1)>> ELSE <<>>)
                                \o [i \in 1..nn |-> geomrect(i)], ptr)
       IN /\ mons' = r.s.mons
          /\ selmon' = r.s.selmon
          /\ heap' = r.s.heap
          /\ probe' = [stage |-> 1, before |-> S, dirty |-> r.dirty, ptr |-> ptr]
  /\ last' = Event("updategeom", None)
  /\ UNCHANGED <<sw, sh, netClientList, xserver, arranged, nev, running, pc>>

NextGeom == UpdateGeom

SpecGeom == InitGeom /\ [][NextGeom]_vars

\* ------------------------------------- the master area on its own
\* keys pressed in the specification of setmfact and incnmaster
MaxMasterKeys == 4

\* Arg.f of setmfact in hundredths: the two of keys[], and absolute factors
\* (1.0 + f) below, at, and above the limits
MfactRequests == MfactArgs \cup { 105, 110, 150, 190, 195 }

\* one monitor as createmon leaves it, with up to two tiled clients and one of
\* the three layouts chosen
InitMaster ==
  \E lt \in TileLayouts, n \in 0..2 :
    LET s0 == tilestate([ww |-> 1600, wh |-> 1000], nmaster, lt, n, 0,
                        IF n = 0 THEN None ELSE 1, FALSE)
    IN /\ mons = s0.mons
       /\ selmon = s0.selmon
       /\ heap = s0.heap
       /\ sw = s0.sw
       /\ sh = s0.sh
       /\ netClientList = s0.netClientList
       /\ xserver = s0.xserver
       /\ arranged = {}
       /\ last = Event("setup", None)
       /\ probe = NoProbe
       /\ running = TRUE
       /\ pc = "run"
       /\ nev = 0

SetMfactMaster ==
  /\ nev < MaxMasterKeys
  /\ \E f \in MfactRequests : Commit(setmfact(S, f), Event("setmfact", None))

IncNMasterMaster ==
  /\ nev < MaxMasterKeys
  /\ \E i \in Directions : Commit(incnmaster(S, i), Event("incnmaster", None))

NextMaster == SetMfactMaster \/ IncNMasterMaster

SpecMaster == InitMaster /\ [][NextMaster]_vars

\* --------------------------------------------------- manage on its own
\* two monitors and one client, window 1, on monitor h with tags otags; the
\* selected monitor shows the tags ts
managestate(h, sel, otags, ts) ==
  LET s0 == geomstate(2, 1, <<h>>, sel, TRUE)
      s1 == [s0 EXCEPT !.heap[1].tags = otags, !.mons[sel].tagset[1] = ts]
  IN xsettled([s1 EXCEPT !.mons[h].sel = IF ISVISIBLE(s1, 1) THEN 1 ELSE None])

\* the windows to manage: matching any of the rules, transient for none, for
\* window 1 or for a window without a client, fixed in size or not, a dialog
\* or not, fullscreen or not
ManageKinds ==
  { [PlainWindow EXCEPT !.match = m, !.trans = t, !.size = sz, !.wtype = wt,
                        !.state = st] :
      m \in SUBSET {1, 2}, t \in {None, 1, 3}, sz \in {NoSizeHints, FixedHints},
      wt \in {"none", "NetWMWindowTypeDialog"}, st \in {"none", "NetWMFullscreen"} }

InitManage ==
  \E h \in 1..2, sel \in 1..2, otags \in {{0}, {1}}, ts \in {{0}, {0, 2}} :
    LET s0 == managestate(h, sel, otags, ts)
    IN /\ mons = s0.mons
       /\ selmon = s0.selmon
       /\ heap = s0.heap
       /\ sw = s0.sw
       /\ sh = s0.sh
       /\ netClientList = s0.netClientList
       /\ xserver = s0.xserver
       /\ arranged = {}
       /\ last = Event("setup", None)
       /\ probe = NoProbe
       /\ running = TRUE
       /\ pc = "run"
       /\ nev = 0

\* manage(2, wa); the probe keeps the state before and the window's properties
ManageWindow ==
  /\ probe.stage = 0
  /\ \E wa \in ManageKinds :
       \E s1 \in {manage(S, 2, wa)} :
         /\ mons' = s1.mons
         /\ selmon' = s1.selmon
         /\ heap' = s1.heap
         /\ netClientList' = s1.netClientList
         /\ xserver' = s1.xserver
         /\ arranged' = s1.arranged
         /\ probe' = [stage |-> 1, before |-> S, wa |-> wa]
  /\ last' = Event("manage", 2)
  /\ nev' = nev + 1
  /\ UNCHANGED <<sw, sh, running, pc>>

NextManage == ManageWindow

SpecManage == InitManage /\ [][NextManage]_vars

\* ----------------------------------------- a pull of a tiled client
\* the events of one pull: a motion beyond snap, alone or after or before a
\* MapRequest of window 2, a ConfigureRequest of the client, or an Expose
PullEvents ==
  LET e == [type |-> "MotionNotify", x |-> 50, y |-> 50, window |-> None,
            request |-> CHOOSE r \in ConfigureRequests : TRUE, wa |-> PlainWindow]
  IN { e, [e EXCEPT !.type = "Expose"],
       [e EXCEPT !.type = "MapRequest", !.window = 2] }
     \cup { [e EXCEPT !.type = "ConfigureRequest", !.window = 1, !.request = r] :
              r \in ConfigureRequests }

MaxPull == 3
PullDrags ==
  { [grab |-> TRUE, ptr |-> TRUE, x |-> 2, y |-> 2, events |-> evs] :
      evs \in UNION { [1..n -> PullEvents] : n \in 1..MaxPull } }

\* one 1600x1000 monitor in the tiled layout, client 1 tiled and selected
InitPull ==
  LET s0 == arrange(tilestate([ww |-> 1600, wh |-> 1000], nmaster, LtTile, 1, 0, 1,
                              FALSE), 1)
  IN /\ mons = s0.mons
     /\ selmon = s0.selmon
     /\ heap = s0.heap
     /\ sw = s0.sw
     /\ sh = s0.sh
     /\ netClientList = s0.netClientList
     /\ xserver = s0.xserver
     /\ arranged = {}
     /\ last = Event("setup", None)
     /\ probe = NoProbe
     /\ running = TRUE
     /\ pc = "run"
     /\ nev = 0

\* the handler's result written back, with the drag and the state before
Pulled(s, d, ev) ==
  /\ probe.stage = 0
  /\ mons' = s.mons
  /\ selmon' = s.selmon
  /\ heap' = s.heap
  /\ netClientList' = s.netClientList
  /\ xserver' = s.xserver
  /\ arranged' = s.arranged
  /\ probe' = [stage |-> 1, before |-> S, drag |-> d]
  /\ last' = ev
  /\ nev' = nev + 1
  /\ UNCHANGED <<sw, sh, running, pc>>

MovePull ==
  \E d \in PullDrags : Pulled(movemouse(S, d), d, Event("movemouse", 1))

ResizePull ==
  \E d \in PullDrags : Pulled(resizemouse(S, d), d, Event("resizemouse", 1))

NextPull == MovePull \/ ResizePull

SpecPull == InitPull /\ [][NextPull]_vars

\* ------------------------------------------ a monitor re-query
\* re-queries in a row
MaxRequeries == 2

\* the i-th screen after the output was made taller
tallrect(i) == Rect(12 * (i - 1), 0, 12, 10)

\* what XineramaQueryScreens reports: one to MaxMons screens side by side,
\* each as it was or taller, the first one reported twice when dup
RequeryInfos ==
  { (IF dup THEN <<IF 1 \in tall THEN tallrect(1) ELSE geomrect(1)>> ELSE <<>>)
      \o [i \in 1..nn |-> IF i \in tall THEN tallrect(i) ELSE geomrect(i)] :
    nn \in 1..MaxMons, tall \in SUBSET (1..MaxMons), dup \in BOOLEAN }

InitRequery ==
  \E n \in 1..MaxMons, k \in 0..2 :
    \E home \in [1..k -> 1..n], sel \in 1..n :
      LET s0 == geomstate(n, k, home, sel, TRUE)
      IN /\ mons = s0.mons
         /\ selmon = s0.selmon
         /\ heap = s0.heap
         /\ sw = s0.sw
         /\ sh = s0.sh
         /\ netClientList = s0.netClientList
         /\ xserver = s0.xserver
         /\ arranged = {}
         /\ last = Event("setup", None)
         /\ probe = NoProbe
         /\ running = TRUE
         /\ pc = "run"
         /\ nev = 0

\* updategeom() on what Xinerama reports, the pointer on the first screen;
\* one re-query after another
Requery ==
  /\ nev < MaxRequeries
  /\ \E info \in RequeryInfos :
       \E r \in {updategeom(S, info, [x |-> 1, y |-> 3])} :
          /\ mons' = r.s.mons
          /\ selmon' = r.s.selmon
          /\ heap' = r.s.heap
          /\ probe' = [stage |-> 1, before |-> S, dirty |-> r.dirty, info |-> info]
  /\ last' = Event("updategeom", None)
  /\ nev' = nev + 1
  /\ UNCHANGED <<sw, sh, netClientList, xserver, arranged, running, pc>>

NextRequery == Requery

SpecRequery == InitRequery /\ [][NextRequery]_vars

\* ------------------------------------------ clients of a fixed size
\* events handled in the specification of the fixed clients
MaxFixedEvents == 4

\* one monitor as createmon leaves it, in the tiled layout, with no client
\* or one tiled client
InitFixed ==
  \E n \in 0..1 :
    LET s0 == tilestate([ww |-> 1600, wh |-> 1000], nmaster, LtTile, n, 0,
                        IF n = 0 THEN None ELSE 1, FALSE)
    IN /\ mons = s0.mons
       /\ selmon = s0.selmon
       /\ heap = s0.heap
       /\ sw = s0.sw
       /\ sh = s0.sh
       /\ netClientList = s0.netClientList
       /\ xserver = s0.xserver
       /\ arranged = {}
       /\ last = Event("setup", None)
       /\ probe = NoProbe
       /\ running = TRUE
       /\ pc = "run"
       /\ nev = 0

\* a MapRequest of the next window, of a fixed size or not
MapFixed ==
  /\ nev < MaxFixedEvents
  /\ \E w \in 1..2, sz \in {NoSizeHints, FixedHints} :
       /\ \A v \in 1..(w - 1) : v \in DOMAIN heap
       /\ Commit(maprequest(S, w, [PlainWindow EXCEPT !.size = sz]),
                 Event("maprequest", w))

ToggleFloatingFixed ==
  /\ nev < MaxFixedEvents
  /\ Commit(togglefloating(S), Event("togglefloating", None))

\* a PropertyNotify of WM_NORMAL_HINTS: the window has new size hints
HintsFixed ==
  /\ nev < MaxFixedEvents
  /\ \E w \in 1..2, sz \in {NoSizeHints, FixedHints} :
       Commit(propertynotify(S, w, [atom |-> "XA_WM_NORMAL_HINTS",
                                    state |-> "PropertyNewValue", trans |-> None,
                                    size |-> sz, wmh |-> NoWMHints,
                                    netstate |-> "none", wtype |-> "none"]),
              Event("propertynotify", w))

\* a _NET_WM_STATE message that turns fullscreen on (1) or off (0)
FullscreenFixed ==
  /\ nev < MaxFixedEvents
  /\ \E w \in 1..2, l0 \in 0..1 :
       Commit(clientmessage(S, w, [message_type |-> "NetWMState", fullscreen |-> TRUE,
                                   l0 |-> l0]),
              Event("clientmessage", w))

NextFixed == MapFixed \/ ToggleFloatingFixed \/ HintsFixed \/ FullscreenFixed

SpecFixed == InitFixed /\ [][NextFixed]_vars

\* ------------------------------------------ clients that never take the focus
\* events handled in the specification of the focus
MaxFocusEvents == 4

\* WM_HINTS with the input hint set and input False
NoInputHint == [NoWMHints EXCEPT !.present = TRUE, !.inputhint = TRUE, !.input = FALSE]

\* two monitors side by side as createmon leaves them, no client, the first
\* or the second selected
InitFocus ==
  \E sel \in 1..2 :
    LET s0 == geomstate(2, 0, <<>>, sel, TRUE)
    IN /\ mons = s0.mons
       /\ selmon = s0.selmon
       /\ heap = s0.heap
       /\ sw = s0.sw
       /\ sh = s0.sh
       /\ netClientList = s0.netClientList
       /\ xserver = s0.xserver
       /\ arranged = {}
       /\ last = Event("setup", None)
       /\ probe = NoProbe
       /\ running = TRUE
       /\ pc = "run"
       /\ nev = 0

\* a MapRequest of the next window, which takes the input focus or not
MapFocus ==
  /\ nev < MaxFocusEvents
  /\ \E w \in 1..3, wmh \in {NoWMHints, NoInputHint} :
       /\ \A v \in 1..(w - 1) : v \in DOMAIN heap
       /\ Commit(maprequest(S, w, [PlainWindow EXCEPT !.wmh = wmh]),
                 Event("maprequest", w))

DestroyFocus ==
  /\ nev < MaxFocusEvents
  /\ \E w \in 1..3 : Commit(destroynotify(S, w), Event("destroynotify", w))

FocusStackFocus ==
  /\ nev < MaxFocusEvents
  /\ \E i \in Directions : Commit(focusstack(S, i), Event("focusstack", None))

FocusMonFocus ==
  /\ nev < MaxFocusEvents
  /\ Commit(focusmon(S, 1), Event("focusmon", None))

TagMonFocus ==
  /\ nev < MaxFocusEvents
  /\ Commit(tagmon(S, 1), Event("tagmon", None))

\* a ConfigureNotify of the root with the screen size as it is, Xinerama
\* reporting the first screen or both, the pointer on the first screen
RequeryFocus ==
  /\ nev < MaxFocusEvents
  /\ \E n \in 1..2 :
       Commit(configurenotify(S, [width |-> sw, height |-> sh,
                                  info |-> [i \in 1..n |-> geomrect(i)],
                                  ptr |-> [x |-> 1, y |-> 3]]),
              Event("configurenotify", None))

\* a _NET_ACTIVE_WINDOW message for a window
ActivateFocus ==
  /\ nev < MaxFocusEvents
  /\ \E w \in 1..3 :
       Commit(clientmessage(S, w, [message_type |-> "NetActiveWindow",
                                   fullscreen |-> FALSE, l0 |-> 0]),
              Event("clientmessage", w))

NextFocus ==
  \/ ActivateFocus
  \/ MapFocus
  \/ DestroyFocus
  \/ FocusStackFocus
  \/ FocusMonFocus
  \/ TagMonFocus
  \/ RequeryFocus

SpecFocus == InitFocus /\ [][NextFocus]_vars

\* ------------------------------------ a user action with two monitors
\* clients in the specification of the user actions
MaxFramed == 3
\* key bindings run in a row
MaxFrameKeys == 2

\* two monitors side by side with up to MaxFramed clients spread over them,
\* either monitor selected, the stacks in either order
InitFrame ==
  \E k \in 0..MaxFramed, up \in BOOLEAN :
    \E home \in [1..k -> 1..2], sel \in 1..2 :
      LET s0 == geomstate(2, k, home, sel, up)
      IN /\ mons = s0.mons
         /\ selmon = s0.selmon
         /\ heap = s0.heap
         /\ sw = s0.sw
         /\ sh = s0.sh
         /\ netClientList = s0.netClientList
         /\ xserver = s0.xserver
         /\ arranged = {}
         /\ last = Event("setup", None)
         /\ probe = NoProbe
         /\ running = TRUE
         /\ pc = "run"
         /\ nev = 0

\* a key binding's handler has run and left the state s; the state before
\* is kept
Keyed(s, name) ==
  /\ nev < MaxFrameKeys
  /\ mons' = s.mons
  /\ selmon' = s.selmon
  /\ heap' = s.heap
  /\ netClientList' = s.netClientList
  /\ xserver' = s.xserver
  /\ arranged' = s.arranged
  /\ probe' = [stage |-> 1, before |-> S]
  /\ last' = Event(name, None)
  /\ nev' = nev + 1
  /\ UNCHANGED <<sw, sh, running, pc>>

ViewFrame == \E ui \in ViewArgs : Keyed(view(S, ui), "view")
ToggleViewFrame == \E ui \in TagKeys : Keyed(toggleview(S, ui), "toggleview")
TagFrame == \E ui \in TagArgs : Keyed(tag(S, ui), "tag")
ToggleTagFrame == \E ui \in TagKeys : Keyed(toggletag(S, ui), "toggletag")
SetLayoutFrame == \E v \in LayoutArgs : Keyed(setlayout(S, v), "setlayout")
SetMfactFrame == \E f \in MfactArgs : Keyed(setmfact(S, f), "setmfact")
IncNMasterFrame == \E i \in Directions : Keyed(incnmaster(S, i), "incnmaster")
ToggleBarFrame == Keyed(togglebar(S), "togglebar")
ToggleFloatingFrame == Keyed(togglefloating(S), "togglefloating")
ZoomFrame == Keyed(zoom(S), "zoom")

NextFrame ==
  \/ ViewFrame
  \/ ToggleViewFrame
  \/ TagFrame
  \/ ToggleTagFrame
  \/ SetLayoutFrame
  \/ SetMfactFrame
  \/ IncNMasterFrame
  \/ ToggleBarFrame
  \/ ToggleFloatingFrame
  \/ ZoomFrame

SpecFrame == InitFrame /\ [][NextFrame]_vars

\* ------------------------------------- configurerequest on its own
CWBits == { "CWX", "CWY", "CWWidth", "CWHeight", "CWBorderWidth" }

\* requests with every value mask over the five bits; the position asked for
\* is within the monitor or past its right and bottom edges
MaskedRequests ==
  { [value_mask |-> vm, x |-> p, y |-> p, width |-> 3, height |-> 2,
     border_width |-> 3] : vm \in SUBSET CWBits, p \in {1, 10} }

\* one 12x8 monitor in the tiled or the floating layout with one client,
\* floating or not
InitConfigure ==
  \E lt \in {LtTile, LtFloat}, f \in {0, 1} :
    LET s0 == tilestate([ww |-> 12, wh |-> 8], nmaster, lt, 1, f, 1, FALSE)
    IN /\ mons = s0.mons
       /\ selmon = s0.selmon
       /\ heap = s0.heap
       /\ sw = s0.sw
       /\ sh = s0.sh
       /\ netClientList = s0.netClientList
       /\ xserver = s0.xserver
       /\ arranged = {}
       /\ last = Event("setup", None)
       /\ probe = NoProbe
       /\ running = TRUE
       /\ pc = "run"
       /\ nev = 0

\* configurerequest for the client, the request kept to compare with
ConfigureClient ==
  /\ probe.stage = 0
  /\ \E ev \in MaskedRequests :
       LET s1 == configurerequest(S, 1, ev)
       IN /\ heap' = s1.heap
          /\ mons' = s1.mons
          /\ probe' = [stage |-> 1, before |-> S, ev |-> ev]
  /\ last' = Event("configurerequest", 1)
  /\ nev' = nev + 1
  /\ UNCHANGED <<selmon, sw, sh, netClientList, xserver, arranged, running, pc>>

NextConfigure == ConfigureClient

SpecConfigure == InitConfigure /\ [][NextConfigure]_vars

\* ----------------------------------------------- xerror on its own
\* the core protocol's error codes, and the requests xerror names with some
\* that it does not
ErrorCodes ==
  { "BadRequest", "BadValue", "BadWindow", "BadPixmap", "BadAtom", "BadCursor",
    "BadFont", "BadMatch", "BadDrawable", "BadAccess", "BadAlloc", "BadColor",
    "BadGC", "BadIDChoice", "BadName", "BadLength", "BadImplementation" }
RequestCodes ==
  { "X_SetInputFocus", "X_PolyText8", "X_PolyFillRectangle", "X_PolySegment",
    "X_ConfigureWindow", "X_GrabButton", "X_GrabKey", "X_CopyArea",
    "X_MapWindow", "X_ChangeProperty", "X_KillClient", "X_GetWindowAttributes" }

\* the server answers a request with an error, and Xlib calls xerror
XError ==
  /\ probe.stage = 0
  /\ \E request_code \in RequestCodes, error_code \in ErrorCodes :
       probe' = [stage |-> 1, request_code |-> request_code,
                 error_code |-> error_code,
                 out |-> xerror(request_code, error_code)]
  /\ last' = Event("xerror", None)
  /\ UNCHANGED <<mons, selmon, heap, sw, sh, netClientList, xserver, arranged, nev,
                 running, pc>>

NextError == XError

SpecError == Init /\ [][NextError]_vars

\* ------------------------------------------------- main on its own
MaxArgs == 2
Words == { "-v", "-h", "-V", "--version", "dwm" }
ArgLists == UNION { [1..n -> Words] : n \in 0..MaxArgs }

\* the process as it is started: no monitor yet, the arguments and the
\* display's answers in the probe
InitMain ==
  /\ mons = <<>>
  /\ selmon = None
  /\ heap = <<>>
  /\ sw = 0
  /\ sh = 0
  /\ netClientList = <<>>
  /\ xserver = NoX
  /\ arranged = {}
  /\ last = Event("exec", None)
  /\ \E argv \in ArgLists, display \in BOOLEAN, otherwm \in BOOLEAN :
       probe = [stage |-> 0, argv |-> argv, display |-> display,
                otherwm |-> otherwm, out |-> [printed |-> "", status |-> 0]]
  /\ running = TRUE
  /\ pc = "main"
  /\ nev = 0

Main ==
  /\ pc = "main"
  /\ probe' = [probe EXCEPT !.stage = 1,
                            !.out = main(probe.argv, probe.display, probe.otherwm)]
  /\ pc' = "exit"
  /\ last' = Event("main", None)
  /\ UNCHANGED <<mons, selmon, heap, sw, sh, netClientList, xserver, arranged, nev, running>>

NextMain == Main

SpecMain == InitMain /\ [][NextMain]_vars

\* ------------------------------------------------------------- properties
Count(seq, c) == Cardinality({k \in 1..Len(seq) : seq[k] = c})
Clients == DOMAIN heap
\* the tagset monitor i shows
seltagset(i) == mons[i].tagset[mons[i].seltags + 1]

\* C1: every managed client appears exactly once in the clients list and
\* exactly once in the stack list of the monitor its mon field names, and in
\* no list of any other monitor.
C1_ClientOnItsMonitor ==
  \A c \in Clients :
    /\ heap[c].mon \in 1..Len(mons)
    /\ \A i \in 1..Len(mons) :
         /\ Count(mons[i].clients, c) = IF i = heap[c].mon THEN 1 ELSE 0
         /\ Count(mons[i].stack, c) = IF i = heap[c].mon THEN 1 ELSE 0

\* tagmon has sent one of two clients to the other monitor
C1_Witness ==
  /\ last.ev = "tagmon"
  /\ Cardinality(Clients) = 2
  /\ \E c, d \in Clients : heap[c].mon # heap[d].mon

\* C2: for every monitor m, selected or not, m.sel is null or a client that
\* is in m.stack and visible on m.
C2_SelVisibleInStack ==
  \A i \in 1..Len(mons) :
    \/ mons[i].sel = None
    \/ /\ Count(mons[i].stack, mons[i].sel) > 0
       /\ (heap[mons[i].sel].tags \cap seltagset(i)) # {}

\* C3: both tagset slots of every monitor and the tags of every managed
\* client are non-empty subsets of TAGMASK.
C3_TagsWithinTagMask ==
  /\ \A i \in 1..Len(mons) : \A k \in 1..2 :
       mons[i].tagset[k] # {} /\ mons[i].tagset[k] \subseteq TAGMASK
  /\ \A c \in Clients : heap[c].tags # {} /\ heap[c].tags \subseteq TAGMASK

\* a client tagged by a rule is shown by view(~0)
C3_Witness ==
  /\ last.ev = "view"
  /\ seltagset(selmon) = TAGMASK
  /\ \E c \in Clients : heap[c].tags = {8}

\* C4: every fullscreen client is floating, has border width 0 and has the
\* geometry (mx, my, mw, mh) of the monitor it belongs to.
C4_FullscreenCoversMonitor ==
  \A c \in Clients :
    heap[c].isfullscreen =>
      /\ heap[c].isfloating
      /\ heap[c].bw = 0
      /\ <<heap[c].x, heap[c].y, heap[c].w, heap[c].h>>
           = <<mons[heap[c].mon].mx, mons[heap[c].mon].my,
               mons[heap[c].mon].mw, mons[heap[c].mon].mh>>

\* C5: setfullscreen(c, 1) on a client that is not fullscreen, followed
\* directly by setfullscreen(c, 0), leaves x, y, w, h, the border width and
\* the floating flag as they were before the first call.
C5_FullscreenRoundTrip ==
  [][(last.ev = "setfullscreen1" /\ last'.ev = "setfullscreen0" /\ last'.win = last.win)
       => /\ <<heap'[last.win].x, heap'[last.win].y, heap'[last.win].w, heap'[last.win].h>>
               = <<last.pre.x, last.pre.y, last.pre.w, last.pre.h>>
          /\ heap'[last.win].bw = last.pre.bw
          /\ heap'[last.win].isfloating = last.pre.isfloating]_vars

\* C6: when a root ConfigureNotify changes the size of the monitor of a
\* fullscreen client, the client takes the new geometry of its monitor and
\* its oldx, oldy, oldw, oldh still hold what they held before the event.
C6_FullscreenKeepsOldGeometry ==
  [][last'.ev = "configurenotify" =>
       \A c \in Clients :
         (/\ heap[c].isfullscreen
          /\ <<mons[heap[c].mon].mw, mons[heap[c].mon].mh>>
               # <<mons'[heap'[c].mon].mw, mons'[heap'[c].mon].mh>>)
         => /\ <<heap'[c].x, heap'[c].y, heap'[c].w, heap'[c].h>>
                 = <<mons'[heap'[c].mon].mx, mons'[heap'[c].mon].my,
                     mons'[heap'[c].mon].mw, mons'[heap'[c].mon].mh>>
            /\ <<heap'[c].oldx, heap'[c].oldy, heap'[c].oldw, heap'[c].oldh>>
                 = <<heap[c].oldx, heap[c].oldy, heap[c].oldw, heap[c].oldh>>]_vars

\* C7 as the specification states it: _NET_CLIENT_LIST, read as a sequence,
\* is the concatenation of the monitors' clients lists in monitor order.
C7_ClientListInMonitorOrder == netClientList = clientlistwalk(S, 1)

\* C7, amended: _NET_CLIENT_LIST holds the windows of the monitors' clients
\* lists, each as often as the lists hold it (once); the order may differ.
C7_ClientListSameWindows ==
  \A w \in Windows : Count(netClientList, w) = Count(clientlistwalk(S, 1), w)

\* the second window mapped is last in the property and first in clients
C7_Witness ==
  /\ last.ev = "maprequest"
  /\ Len(netClientList) = 2
  /\ netClientList # clientlistwalk(S, 1)

\* C8: after an arrange of a monitor in the tile or monocle layout, the
\* rectangle (x, y, w + 2 bw, h + 2 bw) of every visible client of it that
\* is not floating lies within (wx, wy, ww, wh).
C8_TiledInsideWindowArea ==
  \A i \in arranged :
    ltarrange(mons[i]) \in {"tile", "monocle"} =>
      \A k \in 1..Len(mons[i].clients) :
        LET cl == heap[mons[i].clients[k]]
        IN ((cl.tags \cap seltagset(i)) # {} /\ ~cl.isfloating)
           => /\ cl.x >= mons[i].wx
              /\ cl.y >= mons[i].wy
              /\ cl.x + WIDTH(cl) <= mons[i].wx + mons[i].ww
              /\ cl.y + HEIGHT(cl) <= mons[i].wy + mons[i].wh

\* w and h within the minimum and maximum and on the increment steps of cl
satisfieshints(cl) ==
  /\ cl.w >= cl.minw /\ cl.h >= cl.minh
  /\ cl.maxw # 0 => cl.w <= cl.maxw
  /\ cl.maxh # 0 => cl.h <= cl.maxh
  /\ cl.incw # 0 => CMod(cl.w - cl.basew, cl.incw) = 0
  /\ cl.inch # 0 => CMod(cl.h - cl.baseh, cl.inch) = 0

\* C9: the stored w and h of every floating client satisfy its size hints.
C9_FloatingSatisfiesHints ==
  \A c \in Clients : heap[c].isfloating => satisfieshints(heap[c])

\* C10: applysizehints applied to the geometry it returned, for the same
\* client and interact flag, returns that geometry again.
C10_FixedPoint == probe.stage = 2 => probe.again = probe.out

\* the client of the probe with the size applysizehints returned
probed == [heap[1] EXCEPT !.w = probe.out.w, !.h = probe.out.h]

\* C11: the (w, h) applysizehints returns are at least the minimum, at most
\* the maximum where there is one, and a whole number of increments above
\* the base size.
C11_ReturnedSizeSatisfiesHints == probe.stage >= 1 => satisfieshints(probed)

\* C11, the example: with increments (80, 16), base (0, 0) and minimum
\* (80, 16) the proposed size (837, 409) becomes (800, 400).
C11_CellExample ==
  (probe.stage >= 1 /\ heap[1].incw = 80 /\ probe.arg = CellGeom)
    => <<probe.out.w, probe.out.h>> = <<800, 400>>

\* ------------------------------------------------------------ C12: tile
\* the tiled clients of the monitor, in clients order
tiled == nexttiled(S, 1)
\* the number of clients of the master column
masters == MIN(Len(tiled), mons[1].nmaster)
\* the border-inclusive heights of tl[a..b] added up
RECURSIVE placed(_, _, _)
placed(tl, a, b) ==
  IF a > b THEN 0 ELSE HEIGHT(heap[tl[a]]) + placed(tl, a + 1, b)

\* the width of the master column
columnwidth ==
  IF Len(tiled) <= mons[1].nmaster THEN mons[1].ww
  ELSE IF mons[1].nmaster > 0 THEN (mons[1].ww * mons[1].mfact) \div 100
  ELSE 0
\* the first and the last client of the column of the k-th tiled client
columnfirst(k) == IF k <= masters THEN 1 ELSE masters + 1
columnlast(k) == IF k <= masters THEN masters ELSE Len(tiled)
\* the border-inclusive rectangle of the k-th tiled client by the recurrence
column(k) ==
  [x |-> IF k <= masters THEN mons[1].wx ELSE mons[1].wx + columnwidth,
   y |-> mons[1].wy + placed(tiled, columnfirst(k), k - 1),
   width |-> IF k <= masters THEN columnwidth ELSE mons[1].ww - columnwidth,
   height |-> (mons[1].wh - placed(tiled, columnfirst(k), k - 1))
                \div (columnlast(k) - k + 1)]
incolumn(k) ==
  /\ heap[tiled[k]].x = column(k).x
  /\ heap[tiled[k]].y = column(k).y
  /\ WIDTH(heap[tiled[k]]) = column(k).width
  /\ HEIGHT(heap[tiled[k]]) = column(k).height
\* the heights of each column add up to wh
columnsfill ==
  /\ masters > 0 => placed(tiled, 1, masters) = mons[1].wh
  /\ Len(tiled) > masters => placed(tiled, masters + 1, Len(tiled)) = mons[1].wh
\* no tiled client has WM_NORMAL_HINTS that restrict its size
unhinted(c) ==
  /\ heap[c].minw = 0 /\ heap[c].minh = 0 /\ heap[c].maxw = 0 /\ heap[c].maxh = 0
  /\ heap[c].incw = 0 /\ heap[c].inch = 0 /\ heap[c].basew = 0 /\ heap[c].baseh = 0
  /\ heap[c].mina.n = 0 /\ heap[c].maxa.n = 0
tilearranged ==
  /\ probe.stage = 1
  /\ mons[1].lt[mons[1].sellt + 1] = LtTile
  /\ Len(tiled) >= 1
  /\ \A k \in 1..Len(tiled) : unhinted(tiled[k])
\* every cell of the recurrence is at least as wide and as high inside its
\* border as the bar is high
roomy ==
  \A k \in 1..Len(tiled) :
    /\ column(k).width - 2 * heap[tiled[k]].bw >= bh
    /\ column(k).height - 2 * heap[tiled[k]].bw >= bh

\* C12: after tile has arranged n >= 1 tiled clients that have no size hints,
\* and every cell is at least bh wide and high inside the border, the first
\* min(n, nmaster) are in the master column at x = wx with border-inclusive
\* width mw, the rest at x = wx + mw with width ww - mw, each with height
\* (wh - height placed) div (clients remaining in the column), and the
\* heights of each column add up to wh
C12_TileFollowsRecurrence ==
  (tilearranged /\ roomy)
    => /\ \A k \in 1..Len(tiled) : incolumn(k)
       /\ columnsfill

\* C12 as stated: the same for every n >= 1 clients without size hints
C12_TileAnyCount ==
  tilearranged
    => /\ \A k \in 1..Len(tiled) : incolumn(k)
       /\ columnsfill

\* C12: 1600x1000, mfact 0.55, nmaster 1 and four windows: the master is at
\* (0, 0, 880 - 2bw, 1000 - 2bw) and the stack heights are 333, 333, 334
C12_Witness ==
  /\ tilearranged /\ roomy
  /\ mons[1].ww = 1600 /\ mons[1].wh = 1000 /\ mons[1].nmaster = 1
  /\ Len(tiled) = 4
  /\ <<heap[tiled[1]].x, heap[tiled[1]].y, heap[tiled[1]].w, heap[tiled[1]].h>>
       = <<0, 0, 880 - 2 * borderpx, 1000 - 2 * borderpx>>
  /\ <<HEIGHT(heap[tiled[2]]), HEIGHT(heap[tiled[3]]), HEIGHT(heap[tiled[4]])>>
       = <<333, 333, 334>>

\* --------------------------------------------------------- C13: monocle
\* the visible clients of the monitor, floating ones included
visible == SelectSeq(mons[1].clients, LAMBDA c : ISVISIBLE(S, c))
monoclearranged ==
  /\ probe.stage = 1
  /\ mons[1].lt[mons[1].sellt + 1] = LtMonocle
\* client c covers the window area, its border included
coversarea(c) ==
  /\ heap[c].x = mons[1].wx /\ heap[c].y = mons[1].wy
  /\ heap[c].w = mons[1].ww - 2 * heap[c].bw
  /\ heap[c].h = mons[1].wh - 2 * heap[c].bw
\* "[N]" for the visible clients, the configured symbol when there are none
countsvisible ==
  mons[1].ltsymbol = IF Len(visible) > 0
                     THEN [symbol |-> "[%d]", n |-> Len(visible)]
                     ELSE [symbol |-> layouts[LtMonocle].symbol, n |-> 0]

\* C13: after monocle has arranged the monitor, every visible non-floating
\* client that has no size hints is at (wx, wy, ww - 2*bw, wh - 2*bw), and
\* the layout symbol is "[N]" with N the number of visible clients
\* (floating ones included), or the configured "[M]" when none is visible
C13_MonocleUnhinted ==
  monoclearranged
    => /\ \A k \in 1..Len(tiled) : unhinted(tiled[k]) => coversarea(tiled[k])
       /\ countsvisible

\* C13 as stated: every visible non-floating client covers the area
C13_MonocleEveryClient ==
  monoclearranged
    => /\ \A k \in 1..Len(tiled) : coversarea(tiled[k])
       /\ countsvisible

\* C13: three visible clients on 1600x1000, one of them floating: the two
\* tiled ones are at (0, 0, 1600 - 2bw, 1000 - 2bw) and the symbol is "[3]"
C13_Witness ==
  /\ monoclearranged
  /\ mons[1].ww = 1600 /\ Len(visible) = 3 /\ Len(tiled) = 2
  /\ \A k \in 1..2 : unhinted(tiled[k]) /\ coversarea(tiled[k])
  /\ heap[tiled[2]].w = 1600 - 2 * borderpx
  /\ mons[1].ltsymbol = [symbol |-> "[%d]", n |-> 3]

\* C13: no client at all: the symbol stays the configured "[M]"
C13_WitnessEmpty ==
  /\ monoclearranged
  /\ Len(visible) = 0
  /\ mons[1].ltsymbol = [symbol |-> "[M]", n |-> 0]

\* ------------------------------------------------------------ C14: view
\* what view works on: seltags, both tagsets, the selection and the focus
\* stack of the selected monitor
viewed(s) ==
  <<s.mons[s.selmon].seltags, s.mons[s.selmon].tagset, s.mons[s.selmon].sel,
    s.mons[s.selmon].stack>>

\* C14: for every mask M with a tag in it, the second call of
\* view(M); view(M) leaves seltags, both tagset slots, the selection and the
\* focus stack of selmon as the first call left them
C14_ViewTwice ==
  \A ui \in ViewArgs :
    (ui \cap TAGMASK) # {} => viewed(view(view(S, ui), ui)) = viewed(view(S, ui))

\* C14 as stated: the same for every mask M, the empty one included
C14_ViewTwiceAnyMask ==
  \A ui \in ViewArgs : viewed(view(view(S, ui), ui)) = viewed(view(S, ui))

\* C14: a view has switched to other tags, and asking for them again
\* changes nothing
C14_Witness ==
  /\ last.ev = "view"
  /\ mons[selmon].tagset[1] # mons[selmon].tagset[2]
  /\ Len(mons[selmon].stack) > 0
  /\ view(S, mons[selmon].tagset[mons[selmon].seltags + 1]) = S

\* ------------------------------------------- C15: view and the old tags
activetags(s) == s.mons[s.selmon].tagset[s.mons[s.selmon].seltags + 1]
inactivetags(s) == s.mons[s.selmon].tagset[(1 - s.mons[s.selmon].seltags) + 1]
\* s2 is s1 with both slots as they are and seltags flipped
flipsback(s1, s2) ==
  /\ s2.mons[s1.selmon].tagset = s1.mons[s1.selmon].tagset
  /\ s2.mons[s1.selmon].seltags = 1 - s1.mons[s1.selmon].seltags
\* s1 = view(ui) after s keeps the tags of s, and view(0) brings them back
keepsprevious(s, s1, ui) ==
  /\ activetags(s1) = ui \cap TAGMASK
  /\ inactivetags(s1) = activetags(s)
  /\ LET s2 == view(s1, {})
     IN flipsback(s1, s2) /\ activetags(s2) = activetags(s)

\* C15: after view(mask) with (mask & TAGMASK) non-zero and different from
\* the active tagset, the active slot holds mask & TAGMASK and the inactive
\* slot the tagset that was active before; a following view(0) changes
\* neither slot and flips seltags, so that the earlier tagset is active again
C15_ViewKeepsPrevious ==
  \A ui \in ViewArgs :
    ((ui \cap TAGMASK) # {} /\ (ui \cap TAGMASK) # activetags(S))
      => keepsprevious(S, view(S, ui), ui)

\* C15: a view has put other tags into the active slot and kept the tags
\* shown before in the inactive one, and view(0) brings those back
C15_Witness ==
  /\ last.ev = "view"
  /\ activetags(S) # inactivetags(S)
  /\ DOMAIN heap # {}
  /\ activetags(view(S, {})) = inactivetags(S)
  /\ view(S, {}).mons[selmon].tagset = mons[selmon].tagset

\* ------------------------------------------------------ C16: toggleview
\* s1 = toggleview(ui) after s: the active tagset XORed with the mask and
\* nothing else of the tagsets touched, or nothing touched when no tag
\* would be left; and a second toggleview(ui) gives the active tagset of s
toggled(s, s1, ui) ==
  /\ IF Xor(activetags(s), ui \cap TAGMASK) = {}
     THEN /\ s1.mons[s.selmon].tagset = s.mons[s.selmon].tagset
          /\ s1.mons[s.selmon].sel = s.mons[s.selmon].sel
     ELSE /\ activetags(s1) = Xor(activetags(s), ui \cap TAGMASK)
          /\ inactivetags(s1) = inactivetags(s)
  /\ s1.mons[s.selmon].seltags = s.mons[s.selmon].seltags
  /\ s1.selmon = s.selmon
  /\ activetags(toggleview(s1, ui)) = activetags(s)

\* C16: toggleview(mask) XORs the active tagset with mask & TAGMASK, and is
\* refused (tagsets, seltags and selection unchanged) when no tag would be
\* left; toggleview(mask) twice gives the active tagset back
C16_ToggleView ==
  \A ui \in ViewArgs : toggled(S, toggleview(S, ui), ui)

\* C16: a toggleview has added a tag to the view; toggling both tags off is
\* refused and toggling one off is not
C16_Witness ==
  /\ last.ev = "toggleview"
  /\ activetags(S) = {0, 1}
  /\ mons[selmon].sel # None
  /\ toggleview(S, {0, 1}) = S
  /\ activetags(toggleview(S, {1})) = {0}

\* ------------------------------------------------------------- C17: tag
\* s1 = tag(ui) after s with c selected in s: c has the mask (or its old
\* tags when the mask is empty) and no other client was touched
tagged(s, s1, c, ui) ==
  /\ s1.heap[c].tags = IF (ui \cap TAGMASK) # {} THEN ui \cap TAGMASK
                        ELSE s.heap[c].tags
  /\ \A d \in DOMAIN s.heap \ {c} : s1.heap[d].tags = s.heap[d].tags
\* s2 = tag(ui) after s1: c keeps its tags, and the clients other than c
\* and those in also have the tags they have in s
taggedagain(s, s1, s2, c, also) ==
  /\ s2.heap[c].tags = s1.heap[c].tags
  /\ \A d \in DOMAIN s.heap \ ({c} \cup also) : s2.heap[d].tags = s.heap[d].tags
\* the client selected in s
selected(s) == s.mons[s.selmon].sel

\* C17: for the client c selected before the first call, tag(mask);
\* tag(mask) leaves c.tags as a single tag(mask) leaves them (mask & TAGMASK
\* when non-zero, unchanged when zero), and the two calls change the tags of
\* no client other than c and the client selected after the first call
C17_TagTwice ==
  \A ui \in ViewArgs :
    selected(S) # None
      => LET s1 == tag(S, ui)
         IN /\ tagged(S, s1, selected(S), ui)
            /\ taggedagain(S, s1, tag(s1, ui), selected(S), {selected(s1)})

\* C17 as stated: the two calls change the tags of no client other than c
C17_TagTwiceOnlySelected ==
  \A ui \in ViewArgs :
    selected(S) # None
      => LET s1 == tag(S, ui)
         IN /\ tagged(S, s1, selected(S), ui)
            /\ taggedagain(S, s1, tag(s1, ui), selected(S), {})

\* C17: tag has moved the selected client to tag 2, out of view, another
\* client is selected now, and a second tag moves that one
C17_Witness ==
  /\ last.ev = "tag" /\ last.win # None
  /\ heap[last.win].tags = {1}
  /\ mons[selmon].sel \notin {None, last.win}
  /\ heap[mons[selmon].sel].tags = {0}
  /\ tag(S, {1}).heap[mons[selmon].sel].tags = {1}
  /\ tag(S, {1}).heap[last.win].tags = {1}

\* ----------------------------------------------------------- C18: focus
\* the clients lists of all monitors
clientlists(s) == [i \in DOMAIN s.mons |-> s.mons[i].clients]
\* the visible clients of the focus stack of the selected monitor
visiblestack(s) ==
  SelectSeq(s.mons[s.selmon].stack, LAMBDA e : ISVISIBLE(s, e))
\* s1 = focus(c) after s
focused(s, s1, c) ==
  /\ clientlists(s1) = clientlists(s)
  /\ IF c # None /\ ISVISIBLE(s, c)
     THEN /\ Head(s1.mons[s.heap[c].mon].stack) = c
          /\ s1.selmon = s.heap[c].mon
          /\ selected(s1) = c
     ELSE /\ s1.selmon = s.selmon
          /\ selected(s1) = IF visiblestack(s) = <<>> THEN None
                             ELSE Head(visiblestack(s))

\* C18: focus(c) with c visible leaves c at the head of c.mon's stack, makes
\* c.mon the selected monitor and c its sel, and changes the order of no
\* clients list; focus(NULL), or focus of a client that is not visible,
\* selects the first visible client of selmon's stack, or nothing when none
\* is visible
C18_Focus ==
  \A c \in DOMAIN heap \cup {None} : focused(S, focus(S, c), c)

\* C18: focusstack has focused a visible client that is not the head of
\* clients: it is selected and at the head of the stack
C18_Witness ==
  /\ last.ev = "focusstack"
  /\ selected(S) # None
  /\ Len(mons[selmon].stack) >= 2
  /\ Head(mons[selmon].stack) = selected(S)
  /\ Head(mons[selmon].clients) # selected(S)

\* C18: focus(NULL) where no client is visible and one is hidden
C18_WitnessNone ==
  /\ selected(S) = None
  /\ mons[selmon].stack # <<>>
  /\ visiblestack(S) = <<>>
  /\ selected(focus(S, None)) = None

\* ------------------------------------------------------------ C19: zoom
\* the tiled clients of the selected monitor of s, in clients order
tiledsel(s) == nexttiled(s, s.selmon)
\* zoom has a client to move: a layout with an arrange function, a selected
\* client that does not float, and another tiled client when the selected
\* one is the first
zoommoves(s) ==
  /\ ltarrange(s.mons[s.selmon]) # "NULL"
  /\ selected(s) # None
  /\ ~s.heap[selected(s)].isfloating
  /\ tiledsel(s) # <<>>
  /\ selected(s) = Head(tiledsel(s)) => Len(tiledsel(s)) >= 2
\* the client zoom moves
zoomclient(s) ==
  IF selected(s) # Head(tiledsel(s)) THEN selected(s) ELSE tiledsel(s)[2]
\* zoom has nothing to do
zoomidle(s) ==
  \/ ltarrange(s.mons[s.selmon]) = "NULL"
  \/ selected(s) # None /\ s.heap[selected(s)].isfloating
  \/ /\ selected(s) # None
     /\ tiledsel(s) # <<>>
     /\ selected(s) = Head(tiledsel(s))
     /\ Len(tiledsel(s)) < 2
\* s1 = zoom after s
zoomed(s, s1) ==
  /\ zoommoves(s)
       => /\ s1.mons[s.selmon].clients
               = <<zoomclient(s)>> \o Remove(s.mons[s.selmon].clients, zoomclient(s))
          /\ s1.selmon = s.selmon
          /\ selected(s1) = zoomclient(s)
  /\ zoomidle(s) => <<s1.mons, s1.heap, s1.selmon>> = <<s.mons, s.heap, s.selmon>>

\* C19: zoom in a tiling layout with a selection that does not float moves
\* the selected client to the head of clients, or the next tiled client when
\* the selected one is the first tiled; the moved client is selected, no
\* client comes or goes and the others keep their order.  In the floating
\* layout, with a floating selection, or when the selected client is the
\* only tiled one, zoom changes nothing
C19_Zoom == zoomed(S, zoom(S))

\* C19: zoom on four tiled clients with the master selected has moved the
\* second one to the head and selected it
C19_Witness ==
  /\ probe.stage = 2
  /\ last.ev = "zoom" /\ last.win = 1
  /\ mons[1].clients = <<2, 1, 3, 4>>
  /\ selected(S) = 2

\* C19: zoom with a client of the stack selected has moved it to the head
C19_WitnessStack ==
  /\ probe.stage = 2
  /\ last.ev = "zoom" /\ last.win = 3
  /\ mons[1].clients = <<3, 1, 2, 4>>
  /\ selected(S) = 3

\* ---------------------------------------- C20: fewer Xinerama screens
\* the state before updategeom
before == probe.before
\* the monitors updategeom has retired
retired == (Len(mons) + 1)..Len(before.mons)
shrunk == probe.stage = 1 /\ last.ev = "updategeom"
\* client c is once in the clients list and once in the stack of its
\* monitor, and in no list of another monitor
onitsmonitor(c) ==
  /\ heap[c].mon \in DOMAIN mons
  /\ \A i \in DOMAIN mons :
       /\ Count(mons[i].clients, c) = IF i = heap[c].mon THEN 1 ELSE 0
       /\ Count(mons[i].stack, c) = IF i = heap[c].mon THEN 1 ELSE 0
\* the clients of the retired monitors are on the first one, the others
\* where they were, and the lists hold the clients and nothing else
migrated ==
  /\ DOMAIN heap = DOMAIN before.heap
  /\ \A c \in DOMAIN heap :
       /\ onitsmonitor(c)
       /\ heap[c].mon = IF before.heap[c].mon \in retired THEN 1
                         ELSE before.heap[c].mon
  /\ \A i \in DOMAIN mons :
       /\ \A j \in 1..Len(mons[i].clients) : mons[i].clients[j] \in DOMAIN heap
       /\ \A j \in 1..Len(mons[i].stack) : mons[i].stack[j] \in DOMAIN heap
       /\ mons[i].sel # None => heap[mons[i].sel].mon = i

\* the monitor under the pointer, the first one when there is none
underpointer ==
  IF (probe.ptr.x \div 12) + 1 \in DOMAIN mons THEN (probe.ptr.x \div 12) + 1 ELSE 1

\* C20: after updategeom with fewer unique geometries (at least one), every
\* client of a retired monitor is in clients and stack of the first monitor
\* with its mon pointing there, no client is lost or duplicated, no client
\* and no selection refers to a retired monitor, and when the selected
\* monitor was retired the first monitor is selected, unless clients were
\* moved: then the monitor under the pointer is
C20_ShrinkMigrates ==
  shrunk
    => /\ migrated
       /\ selmon \in DOMAIN mons
       /\ (before.selmon \in retired /\ ~probe.dirty) => selmon = 1
       /\ probe.dirty => selmon = underpointer

\* C20 as stated: when the selected monitor was retired the first monitor
\* is selected
C20_ShrinkSelectsFirst ==
  shrunk
    => /\ migrated
       /\ selmon \in DOMAIN mons
       /\ before.selmon \in retired => selmon = 1

\* C20: three monitors became one, the third was selected, and the clients
\* of the second and the third are on the first
C20_Witness ==
  /\ shrunk
  /\ Len(before.mons) = 3 /\ Len(mons) = 1
  /\ before.selmon = 3 /\ selmon = 1
  /\ \E c, d \in DOMAIN heap : before.heap[c].mon = 2 /\ before.heap[d].mon = 3
  /\ migrated

\* ------------------------------------------------------ C21: MapRequest
\* the clients lists and the focus stacks of all monitors
stacklists(s) == [i \in DOMAIN s.mons |-> s.mons[i].stack]
\* the number of places window w has in the lists ls
RECURSIVE places(_, _, _)
places(ls, w, i) ==
  IF i > Len(ls) THEN 0 ELSE Count(ls[i], w) + places(ls, w, i + 1)
\* no window is in the lists twice, and the lists hold the clients
onewindowone(s) ==
  \A w \in Windows :
    /\ places(clientlists(s), w, 1) = IF w \in DOMAIN s.heap THEN 1 ELSE 0
    /\ places(stacklists(s), w, 1) = IF w \in DOMAIN s.heap THEN 1 ELSE 0
\* the MapRequest is one that manage is not called for
notmanaged(s, w, wa) ==
  ~wa.attributes \/ wa.override_redirect \/ w \in DOMAIN s.heap
\* s1 has one client more than s, w, at the head of the clients list of its
\* monitor, and the other clients lists are those of s
created(s, s1, w) ==
  /\ DOMAIN s1.heap = DOMAIN s.heap \cup {w}
  /\ onewindowone(s1)
  /\ \A i \in DOMAIN s.mons :
       s1.mons[i].clients = IF i = s1.heap[w].mon THEN <<w>> \o s.mons[i].clients
                            ELSE s.mons[i].clients
\* s1 = maprequest after s
mapped(s, s1, w, wa) ==
  IF notmanaged(s, w, wa)
  THEN /\ DOMAIN s1.heap = DOMAIN s.heap
       /\ clientlists(s1) = clientlists(s)
       /\ stacklists(s1) = stacklists(s)
  ELSE created(s, s1, w)
\* the requests: a window that has a client, or the next one that has
\* none, with each kind of attributes and properties
maprequests ==
  { [w |-> w, wa |-> k] :
      w \in { v \in Windows : \A u \in 1..(v - 1) : u \in DOMAIN heap },
      k \in WindowKinds }

\* the state a step leads to
Sprime ==
  [mons |-> mons', selmon |-> selmon', heap |-> heap', sw |-> sw', sh |-> sh',
   netClientList |-> netClientList', xserver |-> xserver', arranged |-> {}]
\* every MapRequest that manage is not called for leaves the clients and the
\* lists alone
declined(s) ==
  \A r \in maprequests :
    notmanaged(s, r.w, r.wa) => mapped(s, maprequest(s, r.w, r.wa), r.w, r.wa)
\* w is the head of the focus stack of its monitor
headofstack(s, w) == Head(s.mons[s.heap[w].mon].stack) = w
\* w is hidden on the selected monitor and the selected client is the head
\* of the focus stack
behindselected(s, w) ==
  /\ s.heap[w].mon = s.selmon
  /\ ~ISVISIBLE(s, w)
  /\ selected(s) # None
  /\ Head(s.mons[s.selmon].stack) = selected(s)

\* C21: a MapRequest for an override-redirect window, for a window whose
\* attributes cannot be read, or for a window that has a client creates no
\* client and changes no list; any other creates one client, at the head of
\* the clients list of its monitor, and at the head of the focus stack too
\* unless focus(NULL) has put the visible client it selects before it.
\* No two clients hold the same window
C21_MapRequestOnce ==
  /\ [](onewindowone(S) /\ declined(S))
  /\ [][last'.ev = "maprequest"
          => /\ last'.win \notin DOMAIN heap
             /\ created(S, Sprime, last'.win)
             /\ headofstack(Sprime, last'.win) \/ behindselected(Sprime, last'.win)]_vars

\* C21 as stated: the new client is at the head of both lists
C21_MapRequestHeadOfStack ==
  /\ [](onewindowone(S) /\ declined(S))
  /\ [][last'.ev = "maprequest"
          => /\ last'.win \notin DOMAIN heap
             /\ created(S, Sprime, last'.win)
             /\ headofstack(Sprime, last'.win)]_vars

\* C21: a MapRequest has made a second client, the head of both lists of
\* its monitor, and a further MapRequest for its window changes nothing
C21_Witness ==
  /\ last.ev = "maprequest" /\ last.win # None
  /\ Cardinality(DOMAIN heap) = 2
  /\ Head(mons[heap[last.win].mon].clients) = last.win
  /\ Head(mons[heap[last.win].mon].stack) = last.win
  /\ maprequest(S, last.win, PlainWindow) = S

\* ----------------------------------- C22: UnmapNotify and DestroyNotify
\* nothing in s refers to window w
forgotten(s, w) ==
  /\ w \notin DOMAIN s.heap
  /\ places(clientlists(s), w, 1) = 0
  /\ places(stacklists(s), w, 1) = 0
  /\ \A i \in DOMAIN s.mons : s.mons[i].sel # w

\* C22: an UnmapNotify with send_event set leaves the client managed and
\* its list positions, tags, flags and every monitor's selection as they
\* are; a real UnmapNotify or a DestroyNotify for a managed window takes the
\* client off both lists of its monitor, and afterwards no monitor's sel,
\* clients or stack refers to it
C22_UnmanageForgets ==
  /\ [](\A w \in Windows : unmapnotify(S, w, TRUE) = S)
  /\ [][last'.ev \in {"unmapnotify", "destroynotify"}
          => /\ last'.win \in DOMAIN heap
             /\ forgotten(Sprime, last'.win)
             /\ DOMAIN heap' = DOMAIN heap \ {last'.win}]_vars

\* C22: with two monitors, a real UnmapNotify has removed a client;
\* another client is left, and a synthetic
\* UnmapNotify for that one changes nothing
C22_Witness ==
  /\ last.ev = "unmapnotify" /\ last.win # None
  /\ forgotten(S, last.win)
  /\ Len(mons) = 2
  /\ \E w \in DOMAIN heap : unmapnotify(S, w, TRUE) = S

\* --------------------------------------------- C23: the border given back
\* unmanage(c, 0): the border width configured on the window of c
\* (wc.border_width = c->oldbw)
restoredborder(s, c) == s.heap[c].oldbw

\* C23: whenever a client is unmanaged without its window being destroyed,
\* the border width configured back on the window is the one the window had
\* when it was managed: in every state, for every client, unmanage(c, 0)
\* would restore that width
C23_BorderRestored ==
  \A c \in Clients : restoredborder(S, c) = heap[c].wa_border_width

\* ------------------------------------------------- C24: quit and cleanup
\* every list of every monitor is empty and no Client is allocated
unmanagedall(s) ==
  /\ \A i \in 1..Len(s.mons) : s.mons[i].clients = <<>> /\ s.mons[i].stack = <<>>
                               /\ s.mons[i].sel = None
  /\ DOMAIN s.heap = {}

\* a step that takes clients away in cleanup is unmanage(c, 0) of one client:
\* not destroyed, so its border is configured to restoredborder and its
\* WM_STATE set to WithdrawnState
withdrawsone ==
  (pc = "cleanup" /\ DOMAIN heap' # DOMAIN heap)
    => /\ last'.ev = "unmanage"
       /\ last'.win \in DOMAIN heap
       /\ DOMAIN heap' = DOMAIN heap \ {last'.win}
       /\ [Sprime EXCEPT !.arranged = arranged'] = unmanage(S, last'.win, FALSE)
       /\ last'.pre.oldbw = restoredborder(S, last'.win)

refusedmfact(s, f) ==
  LET m == s.mons[s.selmon]
      g == IF f < 100 THEN f + m.mfact ELSE f - 100
  IN ltarrange(m) = "NULL" \/ g < 10 \/ g > 90

C25_WitnessFloating ==
  /\ last.ev = "incnmaster"
  /\ ltarrange(mons[selmon]) = "NULL"
  /\ mons[selmon].mfact = 55
  /\ refusedmfact(S, 5)
  /\ refusedmfact(S, -5)

\* ------------------------------------- C26: fullscreen and the mouse
selfullscreen(s) ==
  /\ s.mons[s.selmon].sel # None
  /\ s.heap[s.mons[s.selmon].sel].isfullscreen

\* C26: with a fullscreen client selected, togglefloating changes nothing, and
\* movemouse and resizemouse return before XGrabPointer, whatever the pointer
\* would have done: no client, monitor or list is changed and none arranged.
C26_FullscreenRefused ==
  /\ [](selfullscreen(S)
          => /\ togglefloating(S) = S
             /\ ~mousegrab(S)
             /\ \A d \in Drags : movemouse(S, d) = S /\ resizemouse(S, d) = S)
  /\ [][(last'.ev \in {"movemouse", "resizemouse"} /\ selfullscreen(S))
          => Sprime = S /\ arranged' = {}]_vars

\* movemouse has returned with the fullscreen client where it was, and a
\* second client next to it
C26_Witness ==
  /\ last.ev = "movemouse"
  /\ last.win # None
  /\ selfullscreen(S)
  /\ mons[selmon].sel = last.win
  /\ Cardinality(DOMAIN heap) = 2

\* --------------------------- C27: ConfigureRequest of a tiled client
\* a client that does not float, on a monitor whose layout arranges
tiledclient(s, c) ==
  /\ c \in DOMAIN s.heap
  /\ ~s.heap[c].isfloating
  /\ ltarrange(s.mons[s.heap[c].mon]) # "NULL"

samegeometry(a, b) == a.x = b.x /\ a.y = b.y /\ a.w = b.w /\ a.h = b.h

\* C27: a ConfigureRequest of a client that does not float, on a monitor
\* whose layout arranges, leaves the client's x, y, w and h as they were,
\* whichever monitor is selected.
C27_TiledKeepsGeometry ==
  [][(last'.ev = "configurerequest" /\ tiledclient(S, last'.win))
      => samegeometry(heap'[last'.win], heap[last'.win])]_vars

\* -------------------------- C28: ConfigureRequest of a floating client
\* the request was for a floating client
floatingrequest == probe.stage = 1 /\ probe.before.heap[1].isfloating

\* the client crosses the right (bottom) edge of its monitor
pastright(cl, m) == cl.x + cl.w > m.mx + m.mw
pastbottom(cl, m) == cl.y + cl.h > m.my + m.mh

\* C28: after a ConfigureRequest of a floating client each of x, y, w, h and
\* the border width whose bit is in the value mask has the value asked for,
\* whatever the other bits of the mask, x and y from the monitor's origin
\* unless the client was centred for crossing the right or the bottom edge.
C28_FloatingRequestHonoured ==
  floatingrequest =>
    LET ev == probe.ev
        cl == heap[1]
        m == mons[cl.mon]
        asked == requested(probe.before.heap[1], m, ev)
    IN /\ "CWBorderWidth" \in ev.value_mask => cl.bw = ev.border_width
       /\ "CWWidth" \in ev.value_mask => cl.w = ev.width
       /\ "CWHeight" \in ev.value_mask => cl.h = ev.height
       /\ "CWX" \in ev.value_mask => cl.x = m.mx + ev.x \/ pastright(asked, m)
       /\ "CWY" \in ev.value_mask => cl.y = m.my + ev.y \/ pastbottom(asked, m)

\* ------------------------------------------------- C29: the X errors let pass
\* the pairs of request and error that the handler is to let pass
allowlisted(request_code, error_code) ==
  \/ error_code = "BadWindow"
  \/ <<request_code, error_code>> \in
       ({"X_SetInputFocus", "X_ConfigureWindow"} \X {"BadMatch"})
       \cup ({"X_PolyText8", "X_PolyFillRectangle", "X_PolySegment", "X_CopyArea"}
               \X {"BadDrawable"})
       \cup ({"X_GrabButton", "X_GrabKey"} \X {"BadAccess"})

\* C29: xerror returns 0 without calling Xlib's default handler exactly for
\* the allow-listed pairs, and hands every other pair to that handler.
C29_ErrorsLetPass ==
  probe.stage = 1 =>
    IF allowlisted(probe.request_code, probe.error_code)
    THEN probe.out.ret = 0 /\ ~probe.out.xerrorxlib
    ELSE probe.out.xerrorxlib

\* BadMatch was let pass for X_ConfigureWindow
C29_Witness ==
  /\ probe.stage = 1
  /\ last.ev = "xerror"
  /\ probe.request_code = "X_ConfigureWindow"
  /\ probe.error_code = "BadMatch"
  /\ probe.out.ret = 0

\* BadMatch was handed on for X_MapWindow
C29_WitnessFatal ==
  /\ probe.stage = 1
  /\ probe.request_code = "X_MapWindow"
  /\ probe.error_code = "BadMatch"
  /\ probe.out.xerrorxlib

\* ------------------------------------------------- C30: the exit status
\* C30: with the single argument -v the version is printed and the exit
\* status is 0, other than the status of the startup failures that go
\* through die; every other argument list prints the usage and exits with a
\* status that is not 0.
C30_VersionExitsZero ==
  probe.stage = 1 =>
    /\ probe.argv = <<"-v">>
         => /\ probe.out.printed = "dwm-VERSION"
            /\ probe.out.status = 0
            /\ probe.out.status # main(<<>>, FALSE, FALSE).status
            /\ probe.out.status # main(<<>>, TRUE, TRUE).status
    /\ (probe.argv # <<>> /\ probe.argv # <<"-v">>)
         => /\ probe.out.printed = "usage: dwm [-v]"
            /\ probe.out.status # 0

\* --------------------------------------------- C31: rules and transients
\* the union of the tag masks of the rules in match
ruletags(match) == UNION { rules[i].tags : i \in match }

\* the tags the monitor m of state s shows
shown(s, m) == s.mons[m].tagset[s.mons[m].seltags + 1]

\* the properties of the window make the client float whatever the rules
\* say: fixed size, dialog type or fullscreen state
floatsanyway(wa) ==
  \/ wa.size = FixedHints
  \/ wa.wtype = "NetWMWindowTypeDialog"
  \/ wa.state = "NetWMFullscreen"

\* C31: a window transient for a managed window gets the owner's monitor and
\* tags.  Any other window stays on the selected monitor (no rule names a
\* monitor) and gets the union of the matching rules' tags within TAGMASK, or
\* the tags the selected monitor shows when that union is empty; class
\* Firefox alone gives tag 9.  A window that is not transient and matches no
\* rule, or only Firefox, floats only if it is fixed in size, a dialog or
\* fullscreen.
C31_RulesAndTransients ==
  probe.stage = 1 =>
    LET wa == probe.wa
        b == probe.before
        cl == heap[2]
    IN IF wa.trans = 1
       THEN cl.mon = b.heap[1].mon /\ cl.tags = b.heap[1].tags
       ELSE /\ cl.mon = b.selmon
            /\ cl.tags = IF (ruletags(wa.match) \cap TAGMASK) # {}
                         THEN ruletags(wa.match) \cap TAGMASK
                         ELSE shown(b, b.selmon)
            /\ wa.match = {2} => cl.tags = {8}
            /\ (wa.trans = None /\ wa.match \in {{}, {2}})
                 => (cl.isfloating <=> floatsanyway(wa))

\* C31 as it is worded: without a rule the client floats only if fixed in
\* size, and with a rule its tags are the union of the rules' masks
C31_RulesAsWorded ==
  probe.stage = 1 =>
    LET wa == probe.wa
        b == probe.before
        cl == heap[2]
    IN IF wa.trans = 1
       THEN cl.mon = b.heap[1].mon /\ cl.tags = b.heap[1].tags
       ELSE wa.trans = None =>
            /\ cl.mon = b.selmon
            /\ wa.match = {} => /\ cl.tags = shown(b, b.selmon)
                                /\ cl.isfloating => cl.isfixed
            /\ wa.match # {} => cl.tags = ruletags(wa.match) \cap TAGMASK
            /\ wa.match = {2} => cl.tags = {8} /\ (cl.isfloating => cl.isfixed)

\* a Firefox window on the selected monitor, the owner on the other one, and
\* a transient of the owner elsewhere in the run
C31_Witness ==
  /\ probe.stage = 1
  /\ last.ev = "manage"
  /\ probe.wa.match = {2}
  /\ probe.wa.trans = None
  /\ heap[2].tags = {8}
  /\ ~heap[2].isfloating
  /\ heap[2].mon = selmon
  /\ heap[1].mon # selmon

\* a transient of window 1, on the monitor that is not selected
C31_WitnessTransient ==
  /\ probe.stage = 1
  /\ probe.wa.trans = 1
  /\ heap[2].mon = heap[1].mon
  /\ heap[2].mon # probe.before.selmon
  /\ heap[2].tags = {1}

\* ------------------------------------ C32: the pull and the nested events
\* the drag has a motion (each one is beyond snap)
pulledfar(d) == \E i \in DOMAIN d.events : d.events[i].type = "MotionNotify"

\* C32: after a pull of the tiled client 1 beyond snap, client 1 floats and
\* no other client's floating flag is other than before (a window mapped
\* during the pull does not float), whatever events the loop handed on.
C32_PullFloatsTheClient ==
  (probe.stage = 1 /\ pulledfar(probe.drag))
    => /\ heap[1].isfloating
       /\ \A k \in DOMAIN heap \ {1} : ~heap[k].isfloating

\* ------------------------------------------ C33: the monitor re-query
\* monitor m has the total geometry u and the bar where updatebarpos puts it
hasgeom(m, u) ==
  /\ m.mx = u.x /\ m.my = u.y /\ m.mw = u.w /\ m.mh = u.h
  /\ m = updatebarpos(m)
  /\ m.wh = (IF m.showbar THEN u.h - bh ELSE u.h)

\* the re-query had to add or remove a monitor or change a rectangle
requerychanges(s, u) ==
  \/ Len(u) # Len(s.mons)
  \/ \E i \in 1..Len(u) : i <= Len(s.mons) /\
       <<s.mons[i].mx, s.mons[i].my, s.mons[i].mw, s.mons[i].mh>>
         # <<u[i].x, u[i].y, u[i].w, u[i].h>>

\* C33: after updategeom with Xinerama active, whether the list grew, kept
\* its length or shrank, the i-th monitor has the i-th unique geometry and
\* its bar position recomputed, and updategeom returned true whenever it
\* added or removed a monitor or changed a rectangle.
C33_RequeryMatchesScreens ==
  probe.stage = 1 =>
    LET u == uniquegeoms(probe.info, 1, <<>>)
    IN /\ Len(mons) = Len(u)
       /\ \A i \in 1..Len(u) : hasgeom(mons[i], u[i])
       /\ requerychanges(probe.before, u) => probe.dirty

\* the same for growth and unchanged count only
C33_GrowthMatchesScreens ==
  (probe.stage = 1 /\ Len(probe.before.mons) <= Len(uniquegeoms(probe.info, 1, <<>>)))
     => C33_RequeryMatchesScreens

\* --------------------------------------- C34: fixed clients float
\* C34: in every reachable state every managed client whose size hints make
\* it fixed is floating, after manage, togglefloating, a change of
\* WM_NORMAL_HINTS and a fullscreen on/off cycle alike.
C34_FixedFloats ==
  \A c \in DOMAIN heap : heap[c].isfixed => heap[c].isfloating

\* C34 for manage and togglefloating alone: a step of either leaves the
\* client it worked on floating when that client is fixed
C34_ManageAndToggleKeepFixedFloating ==
  [][(last'.ev = "maprequest" /\ heap'[last'.win].isfixed => heap'[last'.win].isfloating)
     /\ (last'.ev = "togglefloating" /\ heap'[mons'[selmon'].sel].isfixed
           => heap'[mons'[selmon'].sel].isfloating)]_vars

\* ------------------------------------- C35: _NET_ACTIVE_WINDOW
\* C35: after every handled event _NET_ACTIVE_WINDOW on the root is absent
\* or holds the window of the selected monitor's selected client, so it
\* never names a window that is not managed, also when the client that took
\* the focus has neverfocus set.
C35_ActiveWindowIsSelected ==
  \/ xserver.NetActiveWindow = None
  \/ /\ mons # <<>>
     /\ xserver.NetActiveWindow = mons[selmon].sel

\* the weaker half of C35: _NET_ACTIVE_WINDOW names no window that is not
\* managed
C35_ActiveWindowIsManaged ==
  xserver.NetActiveWindow = None \/ xserver.NetActiveWindow \in DOMAIN heap

\* ------------------------------- C36: the selection is the first visible
\* C36: after every handled event the selected monitor's sel is the first
\* visible client of the selected monitor's focus stack, or null when that
\* monitor shows no client.
C36_SelIsFirstVisible ==
  mons # <<>> => mons[selmon].sel = firstvisible(S, mons[selmon].stack, 1)

\* ------------------------------- C37: monitors, selmon and c->mon
\* C37: from the end of setup on the monitor list is not empty, selmon is a
\* monitor of the list and every client's mon is a monitor of the list,
\* whatever re-queries (each reporting at least one geometry) have run.
C37_MonitorsValid ==
  /\ Len(mons) >= 1
  /\ selmon \in 1..Len(mons)
  /\ \A c \in DOMAIN heap : heap[c].mon \in 1..Len(mons)

\* three monitors became one in a re-query; the third was selected and had
\* a client
C37_Witness ==
  /\ probe.stage = 1
  /\ Len(probe.before.mons) = 3
  /\ probe.before.selmon = 3
  /\ \E c \in DOMAIN heap : probe.before.heap[c].mon = 3
  /\ Len(mons) = 1

\* a second re-query, after one that added a monitor, has retired two
C37_WitnessAgain ==
  /\ nev = 2
  /\ Len(probe.before.mons) = 3
  /\ probe.before.mons[3].clients = <<>>
  /\ Len(mons) = 1

\* ------------------------------- C38: the selected border and the grabs
\* C38: after every handled event at most one managed client has the
\* selected border colour or the focused button grabs, and that one is the
\* selected monitor's selected client; every other client has the normal
\* border colour and all its buttons grabbed.
C38_OnlySelectedLooksFocused ==
  \A c \in DOMAIN heap :
    (xserver.border[c] = "SchemeSel" \/ xserver.focused[c]) => c = mons[selmon].sel

\* ------------------------------- C39: the selected client is not urgent
\* C39: after every handled event the selected client of the selected
\* monitor is not urgent, across every change of the selected monitor.
C39_SelectedNotUrgent ==
  mons # <<>> /\ mons[selmon].sel # None => ~heap[mons[selmon].sel].isurgent

\* ------------------------------- C40: user actions and the other monitors
\* C40: view, toggleview, tag, toggletag, setlayout, setmfact, incnmaster,
\* togglebar, togglefloating and zoom leave the selected monitor selected
\* and change neither a monitor that is not selected (tagsets, seltags,
\* layouts, mfact, nmaster, showbar, sel, clients and stack order) nor a
\* client on such a monitor.
C40_OtherMonitorsUntouched ==
  probe.stage = 1 =>
    /\ selmon = probe.before.selmon
    /\ Len(mons) = Len(probe.before.mons)
    /\ \A i \in 1..Len(mons) : i # selmon => mons[i] = probe.before.mons[i]
    /\ \A c \in DOMAIN probe.before.heap :
         probe.before.heap[c].mon # selmon
           => c \in DOMAIN heap /\ heap[c] = probe.before.heap[c]

\* a second action in a row has changed the selected monitor, with clients
\* on both monitors
C40_Witness ==
  /\ nev = 2
  /\ mons[selmon] # probe.before.mons[selmon]
  /\ \E c \in DOMAIN heap : heap[c].mon # selmon
  /\ \E c \in DOMAIN heap : heap[c].mon = selmon

\* zoom has moved a client to the head of the selected monitor's clients
\* while the other monitor has a client
C40_WitnessZoom ==
  /\ probe.stage = 1
  /\ last.ev = "zoom"
  /\ mons[selmon].clients # probe.before.mons[selmon].clients
  /\ \E c \in DOMAIN heap : heap[c].mon # selmon

====
